---- MODULE Spec2Model ----
(***************************************************************************)
(* Bulk 2.0 pipeline of nsss/api/bulk2.py (class Bulk2SFType):             *)
(*   wait_for_job   - the polling loop with its delay schedule and its     *)
(*                    24 hour deadline;                                    *)
(*   _split_csv     - the chunker (with __yield_chunks);                   *)
(*   _upload_data   - one chunk: create, upload, close, wait, read the     *)
(*                    counts, with the abort of the job on failure;        *)
(*   _upload_file   - the dispatcher: the checks of the arguments, then    *)
(*                    the chunks one by one or in batches on a thread pool;*)
(*   create_job     - the payload of a new job, as built for each public   *)
(*                    operation;                                           *)
(*   query, query_all - the pager: create the job, wait for it, then       *)
(*                    request the result pages by locator;                 *)
(*   Salesforce.query_all_iter, query_all (core.py) - the REST query       *)
(*                    iterator over nextRecordsUrl;                        *)
(*   Salesforce._call_salesforce (core.py) over CallableSF.call_salesforce *)
(*                    (base.py) - one request with the session refresh.    *)
(* Time is counted in milliseconds since the start of the call.  The       *)
(* remote service is the environment: every request either returns what    *)
(* the service chooses or raises.  A CSV line is a run of one character    *)
(* followed by its line ending; sizes are computed from the characters.    *)
(***************************************************************************)
EXTENDS Integers, Sequences, FiniteSets, TLC

(* ------------------------------------------------------------------ *)
(* Program constants                                                   *)
(* ------------------------------------------------------------------ *)
DEFAULT_WAIT_TIMEOUT_SECONDS == 24 * 60 * 60

MAX_CHECK_INTERVAL_SECONDS == 2

MAX_INGEST_JOB_FILE_SIZE == 100 * 1024 * 1024

MAX_INGEST_JOB_PARALLELISM == 10

JobStates == {"Open", "UploadComplete", "InProgress", "JobComplete", "Failed", "Aborted"}

(* the states wait_for_job keeps polling on *)
PendingStates == {"Open", "UploadComplete", "InProgress"}

(* ------------------------------------------------------------------ *)
(* Bounds of the model                                                 *)
(* ------------------------------------------------------------------ *)
(* polls that the service answers at once; later polls are slow ones *)
MaxFastPolls == 10

(* the time a slow request takes, in ms (a quarter of the deadline) *)
SlowRequestMs == 21600000

(* base_wait values, in ms: 0, 0.9 s, the default 5 s, 7 h, 25 h *)
WaitValues == {0, 900, 5000, 25200000, 90000000}

Latencies == {0, SlowRequestMs}

JobIds == {"750A", "750B"}

(* data lines of one input *)
MaxLines == 3

(* chunks of one call of _upload_file: of a call with a concurrency above the
   maximum, and of the other calls *)
MaxChunks == 11

MaxFewChunks == 4

(* result pages of one query job *)
MaxPages == 3

(* pages of one REST query, records of one page, records taken from the iterator *)
MaxRestPages == 3

MaxPageRecords == 2

MaxTaken == 8

MiB == 1024 * 1024

(* a line of text is cols fields separated by the column delimiter; its fields
   hold len characters in all, each the code point ch *)
Body(ch, len, cols) == [ch |-> ch, len |-> len, cols |-> cols]

(* the lines an input is made of: "aaa", 40 x e-acute, 30 x euro sign, 60 MiB
   and 100 MiB of "a" *)
LineBodies ==
    { Body(97, 3, 1), Body(233, 40, 1), Body(8364, 30, 1),
      Body(97, 60 * MiB, 1), Body(97, 100 * MiB, 1) }

(* the headers: "Id" and "Id,Name" *)
HeaderBodies == { Body(73, 2, 1), Body(73, 6, 2) }

LineEndings == {"LF", "CRLF"}

NoneArg == [set |-> FALSE, v |-> 0]

IntArg(n) == [set |-> TRUE, v |-> n]

(* batch_size / max_records arguments: None, 0, 1, 2, 5 *)
MaxRecordsArgs == {NoneArg} \cup {IntArg(n) : n \in {0, 1, 2, 5}}

VARIABLES
    wait,            \* wait_for_job: the wait argument (base_wait), ms
    is_query,        \* wait_for_job: the is_query argument
    wjob,            \* wait_for_job: the job_id argument
    now,             \* datetime.now(), ms since the call started
    expiration_time, \* wait_for_job local
    job_status,      \* wait_for_job local
    delay_timeout,   \* wait_for_job local, ms
    delay_cnt,       \* wait_for_job local
    wpc,             \* position in wait_for_job: idle, start, loop, returned, raised
    wres,            \* what wait_for_job returned or raised
    polls,           \* number of get_job requests wait_for_job has made
    sleeps,          \* the sleep() calls made so far, in order, ms
    firstTerminal,   \* first terminal state a poll returned, or "none"
    afterTerminal,   \* polls made after a poll had returned a terminal state
    afterDeadline,   \* polls made once the deadline had elapsed
    reqlog,          \* the requests sent to the service so far, in order
    csv_input,       \* _split_csv: the file or the records text given
    max_records_arg, \* _split_csv: the max_records argument
    header,          \* _split_csv local
    lines,           \* _split_csv local
    max_records,     \* __yield_chunks parameter (_max_records)
    max_bytes,       \* __yield_chunks parameter (_max_bytes)
    next_line,       \* __yield_chunks: index of the next line of the for loop
    records_size,    \* __yield_chunks local
    bytes_size,      \* __yield_chunks local
    buff,            \* __yield_chunks local
    yielded,         \* the chunks yielded so far, in order
    spc,             \* position in _split_csv: idle, start, loop, done, raised
    data,            \* _upload_data: the data argument, a chunk
    wait_arg,        \* _upload_data: the wait argument, ms
    res,             \* _upload_data local: the last response
    job_id,          \* _upload_data local
    exc,             \* _upload_data: the exception caught by "except Exception"
    reread,          \* _upload_data: the state read by the handler, or "none"
    ures,            \* what _upload_data returned or raised
    upc,             \* position in _upload_data
    operation,       \* _upload_file: the operation argument
    concurrency,     \* _upload_file: the concurrency argument
    workers,         \* _upload_file local
    chunk_n,         \* the n that chunked(split_data, n=workers) was called with
    mode,            \* _upload_file: "sequential" (workers == 1) or "pooled"
    pool_workers,    \* max_workers of the current ThreadPoolExecutor
    tasks,           \* the state of the _upload_data call of each chunk taken so far
    collected,       \* number of calls whose result the dispatcher has taken
    batch_start,     \* number of calls made before the current batch (or call)
    results,         \* _upload_file local
    fres,            \* what _upload_file returned or raised
    joblog,          \* the requests each _upload_data call of _upload_file has sent
    fault,           \* how an _upload_data call of this run fails, when it fails
    fpc,             \* position in _upload_file
    jcall,           \* the call of a public operation (or of create_job itself)
    job_args,        \* the arguments create_job is called with
    payload,         \* create_job local
    posted,          \* the requests create_job has sent
    jres,            \* what create_job returned or raised
    jpc,             \* position in the call
    q_method,        \* the pager called: "query" or "query_all"
    q_query,         \* query / query_all: the query argument
    q_wait,          \* query / query_all: the wait argument
    q_job,           \* query / query_all local job_id
    locator,         \* query / query_all local
    requests,        \* the locator parameter of each result request sent
    responses,       \* the response to each result request
    pages,           \* the page texts the generator has yielded
    qres,            \* how the generator ended
    qpc,             \* position in the generator
    it_server,       \* query_all_iter: the result pages the service holds
    it_result,       \* query_all_iter local result (the number of the page held)
    it_pos,          \* position of yield from in result["records"]
    all_records,     \* query_all local: the records taken from the iterator
    itres,           \* how the iterator ended
    itpc,            \* position in query_all_iter
    session_id,      \* Salesforce.session_id
    sf_instance,     \* Salesforce.sf_instance
    headers,         \* the bearer token in Salesforce.headers["Authorization"]
    login_partial,   \* whether Salesforce._salesforce_login_partial is set
    api_usage,       \* Salesforce.api_usage
    ccall,           \* the arguments of _call_salesforce
    retries,         \* _call_salesforce: the retries argument of the current call
    live,            \* the session ids the service accepts
    sent,            \* the bearer token of each request sent
    refreshed,       \* number of calls of _refresh_session
    cres,            \* what _call_salesforce returned or raised
    frames,          \* SFType._call_salesforce: the arguments and locals of each nested call
    cpc              \* position in _call_salesforce

waitVars == <<wait, is_query, wjob, now, expiration_time, job_status, delay_timeout,
              delay_cnt, wpc, wres, polls, sleeps, firstTerminal, afterTerminal,
              afterDeadline, reqlog>>

splitVars == <<csv_input, max_records_arg, header, lines, max_records, max_bytes,
               next_line, records_size, bytes_size, buff, yielded, spc>>

uploadVars == <<data, wait_arg, res, job_id, exc, reread, ures, upc>>

(* the locals of wait_for_job: all of waitVars but the request log *)
waitLocals == <<wait, is_query, wjob, now, expiration_time, job_status, delay_timeout,
                delay_cnt, wpc, wres, polls, sleeps, firstTerminal, afterTerminal,
                afterDeadline>>

fileVars == <<operation, concurrency, workers, chunk_n, mode, pool_workers, tasks,
              collected, batch_start, results, fres, joblog, fault, fpc>>

jobVars == <<jcall, job_args, payload, posted, jres, jpc>>

queryVars == <<q_method, q_query, q_wait, q_job, locator, requests, responses, pages,
               qres, qpc>>

iterVars == <<it_server, it_result, it_pos, all_records, itres, itpc>>

sessionVars == <<session_id, sf_instance, headers, login_partial, api_usage, ccall, retries,
                 live, sent, refreshed, cres, frames, cpc>>

vars == <<waitVars, splitVars, uploadVars, fileVars, jobVars, queryVars, iterVars, sessionVars>>

(* ------------------------------------------------------------------ *)
(* wait_for_job                                                        *)
(* ------------------------------------------------------------------ *)
(* math.exp(k), rounded down: exp(k)/1000 seconds is exp(k) ms *)
ExpTable == <<1, 2, 7, 20, 54, 148, 403, 1096, 2980, 8103, 22026, 59874>>

Exp(k) == IF k + 1 <= Len(ExpTable) THEN ExpTable[k + 1] ELSE ExpTable[Len(ExpTable)]

Millis(seconds) == seconds * 1000

BeforeDeadline_NoDeadline(t, expiry) == TRUE

(* while datetime.now() < expiration_time *)
BeforeDeadline(t, expiry) == t < expiry

(* if delay_timeout < MAX_CHECK_INTERVAL_SECONDS *)
DelayMayGrow(d) == d < Millis(MAX_CHECK_INTERVAL_SECONDS)

(* delay_timeout = wait + exp(delay_cnt) / 1000 *)
GrownDelay(w, k) == w + Exp(k)

NextDelay(d, w, k) == IF DelayMayGrow(d) THEN GrownDelay(w, k) ELSE d

NextDelayCnt(d, k) == IF DelayMayGrow(d) THEN k + 1 ELSE k

IsFailureState_FailedOnly(s) == s = "Failed"

(* elif job_status in ("Failed", "Aborted") *)
IsFailureState(s) == s \in {"Failed", "Aborted"}

IsCompleteState(s) == s = "JobComplete"

NoResult == [kind |-> "none"]

(* f"Job {job_id} failed with status {job_status}: ..." *)
JobFailedError(id, s) ==
    [kind |-> "raise", type |-> "SalesforceOperationError", what |-> "failed",
     job_id |-> id, status |-> s]

(* f"Job {job_id} did not complete within the timeout period. Current status: ..." *)
JobTimeoutError(id, s) ==
    [kind |-> "raise", type |-> "SalesforceOperationError", what |-> "timeout",
     job_id |-> id, status |-> s]

(* what call_salesforce raises through exception_handler *)
RequestError(req) ==
    [kind |-> "raise", type |-> "SalesforceError", what |-> req]

Returned(v) == [kind |-> "return", value |-> v]

(* the service answers at once at most MaxFastPolls times in one wait *)
LatencyAllowed(l) == l # 0 \/ polls < MaxFastPolls

InitWaitIdle ==
    /\ wait = 0 /\ is_query = FALSE /\ wjob = "750A"
    /\ now = 0 /\ expiration_time = 0 /\ job_status = "Open"
    /\ delay_timeout = 0 /\ delay_cnt = 0
    /\ wpc = "idle" /\ wres = NoResult
    /\ polls = 0 /\ sleeps = <<>> /\ firstTerminal = "none"
    /\ afterTerminal = 0 /\ afterDeadline = 0 /\ reqlog = <<>>

InitWaitCall ==
    /\ wait \in WaitValues /\ is_query \in BOOLEAN /\ wjob \in JobIds
    /\ now = 0 /\ expiration_time = 0 /\ job_status = "Open"
    /\ delay_timeout = 0 /\ delay_cnt = 0
    /\ wpc = "start" /\ wres = NoResult
    /\ polls = 0 /\ sleeps = <<>> /\ firstTerminal = "none"
    /\ afterTerminal = 0 /\ afterDeadline = 0 /\ reqlog = <<>>

(* lines 649-653: the locals and the first sleep *)
WaitBegin ==
    /\ wpc = "start"
    /\ expiration_time' = now + Millis(DEFAULT_WAIT_TIMEOUT_SECONDS)
    /\ job_status' = IF is_query THEN "InProgress" ELSE "Open"
    /\ delay_timeout' = 0
    /\ delay_cnt' = 0
    /\ now' = now + wait
    /\ sleeps' = Append(sleeps, wait)
    /\ polls' = 0
    /\ firstTerminal' = "none"
    /\ afterTerminal' = 0
    /\ afterDeadline' = 0
    /\ wres' = NoResult
    /\ wpc' = "loop"
    /\ UNCHANGED <<wait, is_query, wjob, reqlog>>

Request(op, id) == [op |-> op, job |-> id]

(* bookkeeping of one get_job request of the loop *)
PollCounted ==
    /\ polls' = polls + 1
    /\ reqlog' = Append(reqlog, Request("get_job", wjob))
    /\ afterTerminal' = IF firstTerminal # "none" THEN afterTerminal + 1 ELSE afterTerminal
    /\ afterDeadline' = IF now >= expiration_time THEN afterDeadline + 1 ELSE afterDeadline

(* ... that returned state s *)
PollMade(s) ==
    /\ PollCounted
    /\ firstTerminal' = IF firstTerminal = "none" /\ s \notin PendingStates
                        THEN s ELSE firstTerminal

(* lines 654-658: the poll returns JobComplete *)
PollComplete ==
    /\ wpc = "loop"
    /\ BeforeDeadline(now, expiration_time)
    /\ \E l \in Latencies, s \in JobStates :
        /\ LatencyAllowed(l)
        /\ IsCompleteState(s)
        /\ PollMade(s)
        /\ job_status' = s
        /\ now' = now + l
        /\ wres' = Returned(s)
        /\ wpc' = "returned"
    /\ UNCHANGED <<wait, is_query, wjob, expiration_time, delay_timeout, delay_cnt, sleeps>>

(* lines 659-663: the poll returns Failed or Aborted *)
PollFailed ==
    /\ wpc = "loop"
    /\ BeforeDeadline(now, expiration_time)
    /\ \E l \in Latencies, s \in JobStates :
        /\ LatencyAllowed(l)
        /\ ~IsCompleteState(s)
        /\ IsFailureState(s)
        /\ PollMade(s)
        /\ job_status' = s
        /\ now' = now + l
        /\ wres' = JobFailedError(wjob, s)
        /\ wpc' = "raised"
    /\ UNCHANGED <<wait, is_query, wjob, expiration_time, delay_timeout, delay_cnt, sleeps>>

(* lines 665-668: any other state: adjust the delay and sleep *)
PollPending ==
    /\ wpc = "loop"
    /\ BeforeDeadline(now, expiration_time)
    /\ \E l \in Latencies, s \in JobStates :
        /\ LatencyAllowed(l)
        /\ ~IsCompleteState(s)
        /\ ~IsFailureState(s)
        /\ PollMade(s)
        /\ job_status' = s
        /\ delay_timeout' = NextDelay(delay_timeout, wait, delay_cnt)
        /\ delay_cnt' = NextDelayCnt(delay_timeout, delay_cnt)
        /\ now' = now + l + delay_timeout'
        /\ sleeps' = Append(sleeps, delay_timeout')
    /\ UNCHANGED <<wait, is_query, wjob, expiration_time, wpc, wres>>

(* line 655: get_job raises (call_salesforce -> exception_handler) *)
PollError ==
    /\ wpc = "loop"
    /\ BeforeDeadline(now, expiration_time)
    /\ \E l \in Latencies :
        /\ LatencyAllowed(l)
        /\ PollCounted
        /\ now' = now + l
    /\ wres' = RequestError("get_job in wait_for_job")
    /\ wpc' = "raised"
    /\ UNCHANGED <<wait, is_query, wjob, expiration_time, job_status, delay_timeout,
                   delay_cnt, sleeps, firstTerminal>>

(* lines 654, 669-671: the loop condition fails *)
WaitTimeout ==
    /\ wpc = "loop"
    /\ ~BeforeDeadline(now, expiration_time)
    /\ wres' = JobTimeoutError(wjob, job_status)
    /\ wpc' = "raised"
    /\ UNCHANGED <<wait, is_query, wjob, now, expiration_time, job_status, delay_timeout,
                   delay_cnt, polls, sleeps, firstTerminal, afterTerminal, afterDeadline,
                   reqlog>>

WaitStep == WaitBegin \/ PollComplete \/ PollFailed \/ PollPending \/ PollError \/ WaitTimeout

WaitDone == wpc \in {"returned", "raised"}

(* ------------------------------------------------------------------ *)
(* Properties of wait_for_job                                          *)
(* ------------------------------------------------------------------ *)
RaisedOperationError == wres.kind = "raise" /\ wres.type = "SalesforceOperationError"

RaisedJobFailed == RaisedOperationError /\ wres.what = "failed"

RaisedTimeout == RaisedOperationError /\ wres.what = "timeout"

ReturnedJobComplete == wpc = "returned" /\ wres = Returned("JobComplete")

(* C3, as stated: wait_for_job returns "JobComplete" iff the first terminal state
   polled is JobComplete, raises SalesforceOperationError iff the first terminal
   state polled is Failed or Aborted, polls no more after the first terminal
   state, and a pending state never ends the wait. *)
C3_AsStated ==
    /\ ReturnedJobComplete <=> firstTerminal = "JobComplete"
    /\ RaisedOperationError <=> firstTerminal \in {"Failed", "Aborted"}
    /\ afterTerminal = 0
    /\ firstTerminal # "none" => WaitDone

(* C3, amended: wait_for_job returns "JobComplete" iff the first terminal state
   polled is JobComplete; it raises the "failed with status" SalesforceOperationError,
   naming that state, iff the first terminal state polled is Failed or Aborted;
   the only other SalesforceOperationError it raises is the deadline one, raised
   with no terminal state polled; it polls no more after the first terminal state;
   a poll that returns a pending state never ends the wait. *)
C3_FirstTerminalDecides ==
    /\ ReturnedJobComplete <=> firstTerminal = "JobComplete"
    /\ RaisedJobFailed <=> firstTerminal \in {"Failed", "Aborted"}
    /\ RaisedJobFailed => wres.status = firstTerminal /\ wres.job_id = wjob
    /\ RaisedOperationError /\ ~RaisedJobFailed => RaisedTimeout /\ firstTerminal = "none"
    /\ wpc = "returned" => ReturnedJobComplete
    /\ afterTerminal = 0
    /\ firstTerminal # "none" => WaitDone
    /\ WaitDone /\ firstTerminal = "none" => wres.kind = "raise" /\ ~RaisedJobFailed

(* [pending, pending, JobComplete] returns; the third poll was the first terminal one *)
C3_Witness == ReturnedJobComplete /\ polls = 3 /\ Len(sleeps) = 3

(* C4: every call of wait_for_job ends; every turn of the loop moves the clock
   forward; no poll is issued once the deadline has elapsed; and the deadline
   error is raised only then, carrying the job id and the state of the last poll. *)
C4_TerminatesByDeadline ==
    /\ <>WaitDone
    /\ [][wpc = "loop" /\ wpc' = "loop" => now' > now]_vars
    /\ [][polls' > polls => now < expiration_time]_vars
    /\ [](afterDeadline = 0)
    /\ [](RaisedTimeout => /\ now >= expiration_time
                           /\ wres.job_id = wjob
                           /\ wres.status = job_status
                           /\ firstTerminal = "none")

(* the deadline error after at least one poll of a job that stayed pending *)
C4_Witness == RaisedTimeout /\ polls > MaxFastPolls /\ wres.status \in PendingStates

(* C5, as stated: the first sleep is base_wait, the k-th delay between polls is
   base_wait + exp(k)/1000 while the delay is below the cap, and no sleep between
   two polls is longer than MAX_CHECK_INTERVAL_SECONDS. *)
C5_DelayCapped ==
    /\ Len(sleeps) >= 1 => sleeps[1] = wait
    /\ \A i \in 2..Len(sleeps) : sleeps[i] <= Millis(MAX_CHECK_INTERVAL_SECONDS)

(* ------------------------------------------------------------------ *)
(* _split_csv and __yield_chunks                                       *)
(* ------------------------------------------------------------------ *)
RECURSIVE SumSeq(_)
SumSeq(q) == IF q = <<>> THEN 0 ELSE Head(q) + SumSeq(Tail(q))

MaxOf(a, b) == IF a >= b THEN a ELSE b

MinOf(a, b) == IF a <= b THEN a ELSE b

MapSeq(Op(_), q) == [i \in 1..Len(q) |-> Op(q[i])]

(* bytes of one code point in UTF-8 *)
Utf8Width(cp) ==
    IF cp < 128 THEN 1 ELSE IF cp < 2048 THEN 2 ELSE IF cp < 65536 THEN 3 ELSE 4

EolChars(eol) == IF eol = "CRLF" THEN 2 ELSE 1

(* a line of text: the fields, the delimiters between them, the line ending *)
Line(body, eol) == [ch |-> body.ch, len |-> body.len, cols |-> body.cols, eol |-> eol]

RowBody(line) == Body(line.ch, line.len, line.cols)

(* len(line) *)
CharLen(line) == line.len + (line.cols - 1) + EolChars(line.eol)

(* len(line.encode("utf-8")): the delimiters and the line ending are ASCII *)
EncodedLen(line) == line.len * Utf8Width(line.ch) + (line.cols - 1) + EolChars(line.eol)

(* text mode, universal newlines: every line ending is read as "\n" *)
ReadLine(line) == [line EXCEPT !.eol = "LF"]

(* bis.readlines() *)
ReadLines(text) == MapSeq(ReadLine, text)

(* records.splitlines(True): the line endings are kept *)
SplitLines(text) == text

(* os.path.getsize(filename): the bytes of the file as stored *)
GetSize(text) == SumSeq(MapSeq(EncodedLen, text))

RECURSIVE MaxCodePoint(_)
MaxCodePoint(text) ==
    IF text = <<>> THEN 0 ELSE MaxOf(MaxOf(Head(text).ch, 13), MaxCodePoint(Tail(text)))

(* sys.getsizeof(records) of a CPython 3.12 str: the header of the object and
   1, 2 or 4 bytes for each character, by the widest character of the text *)
GetSizeOf(text) ==
    LET n == SumSeq(MapSeq(CharLen, text))
        m == MaxCodePoint(text)
    IN  IF m < 128 THEN 41 + n
        ELSE IF m < 256 THEN 57 + n
        ELSE IF m < 65536 THEN 58 + 2 * n
        ELSE 60 + 4 * n

(* max_records = max_records or float("-inf"); max(max_records, len(lines)) *)
EffectiveMaxRecords(arg, n) == IF arg.set /\ arg.v # 0 THEN MaxOf(arg.v, n) ELSE n

(* min(size, MAX_INGEST_JOB_FILE_SIZE - 1 * 1024 * 1024) *)
EffectiveMaxBytes(size) == MinOf(size, MAX_INGEST_JOB_FILE_SIZE - 1 * 1024 * 1024)

Exceeds_Always(rs, bs, mr, mb) == TRUE

Exceeds_RecordsOnly(rs, bs, mr, mb) == rs > mr

(* if records_size > max_records or bytes_size > max_bytes *)
Exceeds(rs, bs, mr, mb) == rs > mr \/ bs > mb

NewBuffer_Empty(line) == <<>>

(* buff = [line] *)
NewBuffer(line) == <<line>>

ClosedCount_Whole(rs) == rs

(* line 511: yield records_size - 1, ... *)
ClosedCount(rs) == rs - 1

ResetBytes_Zero(line) == 0

(* line 514: bytes_size = len(line.encode("utf-8")) *)
ResetBytes(line) == EncodedLen(line)

Chunk_Body(n, h, b) == [record_count |-> n, csv_text |-> b]

(* yield n, header + "".join(buff): the text, line by line *)
Chunk(n, h, b) == [record_count |-> n, csv_text |-> <<h>> \o b]

NoInput == [source |-> "none", text |-> <<>>]

FileInput(text) == [source |-> "file", text |-> text]

RecordsInput(text) == [source |-> "records", text |-> text]

(* the texts: a header and up to MaxLines data lines, all with one line ending *)
TextsOf(k) ==
    { <<Line(h, e)>> \o [i \in 1..k |-> Line(b[i], e)] :
        h \in HeaderBodies, e \in LineEndings, b \in [1..k -> LineBodies] }

Texts == UNION { TextsOf(k) : k \in 0..MaxLines }

CsvInputs ==
    {NoInput, FileInput(<<>>)}
        \cup {FileInput(t) : t \in Texts} \cup {RecordsInput(t) : t \in Texts}

InitSplitIdle ==
    /\ csv_input = NoInput /\ max_records_arg = NoneArg
    /\ header = <<>> /\ lines = <<>> /\ max_records = 0 /\ max_bytes = 0
    /\ next_line = 1 /\ records_size = 0 /\ bytes_size = 0 /\ buff = <<>>
    /\ yielded = <<>> /\ spc = "idle"

InitSplitCall ==
    /\ csv_input \in CsvInputs /\ max_records_arg \in MaxRecordsArgs
    /\ header = <<>> /\ lines = <<>> /\ max_records = 0 /\ max_bytes = 0
    /\ next_line = 1 /\ records_size = 0 /\ bytes_size = 0 /\ buff = <<>>
    /\ yielded = <<>> /\ spc = "start"

(* lines 473-484 and 485-495, up to the first step of __yield_chunks (503-505) *)
SplitOpen ==
    /\ spc = "start"
    /\ csv_input.source # "none"
    /\ csv_input.text # <<>>
    /\ LET all == IF csv_input.source = "file" THEN ReadLines(csv_input.text)
                  ELSE SplitLines(csv_input.text)
           size == IF csv_input.source = "file" THEN GetSize(csv_input.text)
                   ELSE GetSizeOf(csv_input.text)
       IN  /\ header' = <<Head(all)>>
           /\ lines' = Tail(all)
           /\ max_records' = EffectiveMaxRecords(max_records_arg, Len(Tail(all)))
           /\ max_bytes' = EffectiveMaxBytes(size)
    /\ next_line' = 1
    /\ records_size' = 0
    /\ bytes_size' = 0
    /\ buff' = <<>>
    /\ spc' = "loop"
    /\ UNCHANGED <<csv_input, max_records_arg, yielded>>

(* line 477 on an empty file (nothing to unpack), lines 496-497 with no source
   or an empty records text: ValueError *)
SplitValueError ==
    /\ spc = "start"
    /\ csv_input.source = "none" \/ csv_input.text = <<>>
    /\ spc' = "raised"
    /\ UNCHANGED <<csv_input, max_records_arg, header, lines, max_records, max_bytes,
                   next_line, records_size, bytes_size, buff, yielded>>

(* lines 506-514: the line does not fit: yield the buffer, start a new one *)
ChunkFlush ==
    /\ spc = "loop"
    /\ next_line <= Len(lines)
    /\ LET line == lines[next_line]
           rs == records_size + 1
           bs == bytes_size + EncodedLen(line)
       IN  /\ Exceeds(rs, bs, max_records, max_bytes)
           /\ yielded' = IF buff # <<>>
                         THEN Append(yielded, Chunk(ClosedCount(rs), header[1], buff))
                         ELSE yielded
           /\ buff' = NewBuffer(line)
           /\ records_size' = 1
           /\ bytes_size' = ResetBytes(line)
    /\ next_line' = next_line + 1
    /\ UNCHANGED <<csv_input, max_records_arg, header, lines, max_records, max_bytes, spc>>

(* lines 506-509, 515-516: the line fits *)
ChunkAppend ==
    /\ spc = "loop"
    /\ next_line <= Len(lines)
    /\ LET line == lines[next_line]
           rs == records_size + 1
           bs == bytes_size + EncodedLen(line)
       IN  /\ ~Exceeds(rs, bs, max_records, max_bytes)
           /\ buff' = Append(buff, line)
           /\ records_size' = rs
           /\ bytes_size' = bs
    /\ next_line' = next_line + 1
    /\ UNCHANGED <<csv_input, max_records_arg, header, lines, max_records, max_bytes,
                   yielded, spc>>

(* lines 517-518: the end of the input *)
ChunkEnd ==
    /\ spc = "loop"
    /\ next_line > Len(lines)
    /\ yielded' = IF buff # <<>> THEN Append(yielded, Chunk(records_size, header[1], buff))
                  ELSE yielded
    /\ spc' = "done"
    /\ UNCHANGED <<csv_input, max_records_arg, header, lines, max_records, max_bytes,
                   next_line, records_size, bytes_size, buff>>

SplitStep == SplitOpen \/ SplitValueError \/ ChunkFlush \/ ChunkAppend \/ ChunkEnd

(* ------------------------------------------------------------------ *)
(* Properties of _split_csv                                            *)
(* ------------------------------------------------------------------ *)
RECURSIVE Flatten(_)
Flatten(qq) == IF qq = <<>> THEN <<>> ELSE Head(qq) \o Flatten(Tail(qq))

(* the data rows of a chunk: its text without the header line *)
DataRows(chunk) == Tail(chunk.csv_text)

(* the data rows of all chunks yielded so far, in yield order *)
YieldedRows == Flatten(MapSeq(DataRows, yielded))

(* the data rows of the input: its text without the header line *)
InputRows == Tail(csv_input.text)

DataBytes(chunk) == SumSeq(MapSeq(EncodedLen, DataRows(chunk)))

(* min(input_size, MAX_INGEST_JOB_FILE_SIZE - 1 MiB) *)
ByteBound ==
    MinOf(IF csv_input.source = "file" THEN GetSize(csv_input.text)
          ELSE GetSizeOf(csv_input.text),
          MAX_INGEST_JOB_FILE_SIZE - MiB)

(* C6: the data rows of the chunks yielded, in yield order and without the
   chunks' headers, are the data rows of the input in their order: while the
   chunker runs, the rows yielded followed by the rows buffered are the rows
   read so far, and at the end the rows yielded are all rows of the input. *)
C6_RowsPreserved ==
    /\ spc = "loop" =>
          MapSeq(RowBody, YieldedRows \o buff)
              = MapSeq(RowBody, SubSeq(InputRows, 1, next_line - 1))
    /\ spc = "done" => MapSeq(RowBody, YieldedRows) = MapSeq(RowBody, InputRows)
    /\ spc = "raised" => yielded = <<>>

(* three rows that came out in two chunks *)
C6_Witness == spc = "done" /\ Len(InputRows) = 3 /\ Len(yielded) = 2

(* C7, as stated: a chunk holds at most max(max_records, 1) records when the
   caller gave max_records, and at most all records of the input otherwise. *)
C7_RecordBound ==
    \A i \in 1..Len(yielded) :
        yielded[i].record_count
            <= (IF max_records_arg.set THEN MaxOf(max_records_arg.v, 1)
                ELSE Len(InputRows))

(* C8: the UTF-8 bytes of the data lines of a chunk do not exceed the byte
   bound, unless the chunk holds one line that alone exceeds it. *)
C8_ByteBound ==
    \A i \in 1..Len(yielded) :
        \/ DataBytes(yielded[i]) <= ByteBound
        \/ /\ Len(DataRows(yielded[i])) = 1
           /\ EncodedLen(DataRows(yielded[i])[1]) > ByteBound

(* a chunk of two lines closed by the byte bound, then a line that alone exceeds it *)
C8_Witness ==
    /\ spc = "done"
    /\ Len(yielded) = 2
    /\ Len(DataRows(yielded[1])) = 2
    /\ DataBytes(yielded[1]) <= ByteBound
    /\ DataBytes(yielded[2]) > ByteBound

(* the place of the first data row of the i-th chunk among the data rows of
   the input *)
ChunkStart(i) == 1 + SumSeq([k \in 1..(i - 1) |-> Len(DataRows(yielded[k]))])

(* the data rows of the input that the i-th chunk stands for *)
ChunkRows(i) ==
    SubSeq(InputRows, ChunkStart(i), ChunkStart(i) + Len(DataRows(yielded[i])) - 1)

(* how many lines of a text read as the line h *)
Occurrences(text, h) == Cardinality({j \in 1..Len(text) : RowBody(text[j]) = RowBody(h)})

(* C23: every chunk yielded starts with the header line of the input, which
   occurs once in the chunk; the lines after it are data lines of the input, in
   the input's order; the header line is not counted as a record and is not
   among the data lines. *)
C23_HeaderPrefixed ==
    \A i \in 1..Len(yielded) :
        LET text == yielded[i].csv_text
        IN  /\ Len(text) >= 1
            /\ RowBody(text[1]) = RowBody(csv_input.text[1])
            /\ Occurrences(text, csv_input.text[1]) = 1
            /\ MapSeq(RowBody, DataRows(yielded[i])) = MapSeq(RowBody, ChunkRows(i))
            /\ yielded[i].record_count = Len(text) - 1

(* three chunks of one input, each under the header *)
C23_Witness ==
    /\ spc = "done"
    /\ Len(yielded) = 3
    /\ \A i \in 1..3 : yielded[i].csv_text[1] = header[1]

(* the data line at place k of the input alone exceeds the byte bound *)
Oversize(k) == EncodedLen(lines[k]) > ByteBound

(* the chunk that holds the data line at place k, 0 when there is none or
   more than one *)
ChunkOf(k) ==
    LET holding == { i \in 1..Len(yielded) :
                        /\ ChunkStart(i) <= k
                        /\ k < ChunkStart(i) + Len(DataRows(yielded[i])) }
    IN  IF Cardinality(holding) = 1 THEN CHOOSE i \in holding : TRUE ELSE 0

(* C24: when the chunker is done, every data line that alone exceeds the byte
   bound is the one data line of a chunk with record_count 1, whether it is the
   first, a middle or the last line of the input. *)
C24_OversizeLineAlone ==
    spc = "done" =>
        \A k \in 1..Len(lines) :
            Oversize(k) =>
                /\ ChunkOf(k) # 0
                /\ yielded[ChunkOf(k)].record_count = 1
                /\ DataRows(yielded[ChunkOf(k)]) = <<lines[k]>>

(* an oversize line between two lines that fit *)
C24_Witness ==
    /\ spc = "done"
    /\ Len(lines) = 3
    /\ Oversize(2) /\ ~Oversize(1) /\ ~Oversize(3)
    /\ Len(yielded) = 3

(* C25: a chunk followed by another chunk, or by buffered lines, could not take
   the first line of what follows without exceeding the record bound or the byte
   bound; and at the end of an input with at least one data line the trailing
   lines have been yielded as the last chunk. *)
C25_GreedyChunks ==
    /\ \A i \in 1..Len(yielded) :
          LET following == IF i < Len(yielded) THEN DataRows(yielded[i + 1])
                           ELSE IF spc = "loop" THEN buff ELSE <<>>
          IN  following # <<>> =>
                \/ Len(DataRows(yielded[i])) + 1 > max_records
                \/ DataBytes(yielded[i]) + EncodedLen(following[1]) > ByteBound
    /\ (spc = "done" /\ Len(lines) >= 1) =>
          /\ yielded # <<>>
          /\ ChunkStart(Len(yielded)) + Len(DataRows(yielded[Len(yielded)])) - 1
                = Len(lines)

(* two lines that fit together in a first chunk, a third that did not fit in a
   last chunk *)
C25_Witness ==
    /\ spc = "done"
    /\ Len(yielded) = 2
    /\ Len(DataRows(yielded[1])) = 2
    /\ Len(DataRows(yielded[2])) = 1
    /\ ~Oversize(3)

(* C26: the record_count of every chunk is the number of lines after its
   header and is at least 1; at the end the record_counts sum to the number of
   data lines of the input; a header with no data line gives no chunk. *)
C26_RecordCounts ==
    /\ \A i \in 1..Len(yielded) :
          /\ yielded[i].record_count = Len(DataRows(yielded[i]))
          /\ yielded[i].record_count >= 1
    /\ spc = "done" =>
          SumSeq([i \in 1..Len(yielded) |-> yielded[i].record_count]) = Len(InputRows)
    /\ (spc = "done" /\ Len(InputRows) = 0) => yielded = <<>>

(* a chunk of two records closed in the loop and a chunk of one at the end *)
C26_Witness ==
    /\ spc = "done"
    /\ Len(InputRows) = 3
    /\ Len(yielded) = 2
    /\ yielded[1].record_count = 2
    /\ yielded[2].record_count = 1

(* ------------------------------------------------------------------ *)
(* _upload_data                                                        *)
(* ------------------------------------------------------------------ *)
NoResponse == [id |-> "none", state |-> "none"]

(* f"Failed to upload job data. Response content: {res}" *)
LoadError(r) ==
    [kind |-> "raise", type |-> "SalesforceBulkV2LoadError", what |-> "not open",
     job_id |-> r.id, status |-> r.state]

UploadResult(failed, processed, total, id) ==
    [numberRecordsFailed |-> failed, numberRecordsProcessed |-> processed,
     numberRecordsTotal |-> total, job_id |-> id]

ShouldAbort_NotOpen(s) == s \in {"UploadComplete", "InProgress"}

(* if res["state"] in ("UploadComplete", "InProgress", "Open") *)
ShouldAbort(s) == s \in {"UploadComplete", "InProgress", "Open"}

IsOpen_Any(s) == TRUE

(* if res["state"] == "Open" *)
IsOpen(s) == s = "Open"

(* the chunks _upload_data is called with *)
SampleChunks ==
    { Chunk(1, Line(Body(73, 2, 1), "LF"), <<Line(Body(97, 3, 1), "LF")>>),
      Chunk(2, Line(Body(73, 2, 1), "LF"),
            <<Line(Body(97, 3, 1), "LF"), Line(Body(233, 40, 1), "LF")>>) }

InitUploadIdle ==
    /\ data = Chunk(0, Line(Body(73, 2, 1), "LF"), <<>>)
    /\ wait_arg = 0 /\ res = NoResponse /\ job_id = "none"
    /\ exc = NoResult /\ reread = "none" /\ ures = NoResult /\ upc = "idle"

InitUploadCall ==
    /\ data \in SampleChunks
    /\ wait_arg \in WaitValues
    /\ res = NoResponse /\ job_id = "none"
    /\ exc = NoResult /\ reread = "none" /\ ures = NoResult /\ upc = "start"

(* lines 808-814: create_job returns the id and the state of the new job *)
UploadCreate ==
    /\ upc = "start"
    /\ \E id \in JobIds, s \in JobStates :
        /\ res' = [id |-> id, state |-> s]
        /\ job_id' = id
        /\ reqlog' = Append(reqlog, Request("create_job", id))
    /\ upc' = "created"
    /\ UNCHANGED <<data, wait_arg, exc, reread, ures>>

(* line 808: create_job raises, outside the try *)
UploadCreateRaises ==
    /\ upc = "start"
    /\ reqlog' = Append(reqlog, Request("create_job", "none"))
    /\ ures' = RequestError("create_job")
    /\ upc' = "raised"
    /\ UNCHANGED <<data, wait_arg, res, job_id, exc, reread>>

(* lines 816, 827-829: the new job is not Open *)
UploadNotOpen ==
    /\ upc = "created"
    /\ ~IsOpen(res.state)
    /\ exc' = LoadError(res)
    /\ upc' = "handler"
    /\ UNCHANGED <<data, wait_arg, res, job_id, reread, ures, reqlog>>

(* lines 816-817: upload_job_data *)
UploadJobData ==
    /\ upc = "created"
    /\ IsOpen(res.state)
    /\ reqlog' = Append(reqlog, Request("upload_job_data", job_id))
    /\ upc' = "uploaded"
    /\ UNCHANGED <<data, wait_arg, res, job_id, exc, reread, ures>>

(* line 817: upload_job_data raises *)
UploadJobDataRaises ==
    /\ upc = "created"
    /\ IsOpen(res.state)
    /\ reqlog' = Append(reqlog, Request("upload_job_data", job_id))
    /\ exc' = RequestError("upload_job_data")
    /\ upc' = "handler"
    /\ UNCHANGED <<data, wait_arg, res, job_id, reread, ures>>

(* lines 818-819: close_job, then the call of wait_for_job(job_id, False, wait) *)
UploadCloseJob ==
    /\ upc = "uploaded"
    /\ reqlog' = Append(reqlog, Request("close_job", job_id))
    /\ wait' = wait_arg
    /\ is_query' = FALSE
    /\ wjob' = job_id
    /\ wpc' = "start"
    /\ upc' = "waiting"
    /\ UNCHANGED <<data, wait_arg, res, job_id, exc, reread, ures>>
    /\ UNCHANGED <<now, expiration_time, job_status, delay_timeout, delay_cnt, wres,
                   polls, sleeps, firstTerminal, afterTerminal, afterDeadline>>

(* line 818: close_job raises *)
UploadCloseJobRaises ==
    /\ upc = "uploaded"
    /\ reqlog' = Append(reqlog, Request("close_job", job_id))
    /\ exc' = RequestError("close_job")
    /\ upc' = "handler"
    /\ UNCHANGED <<data, wait_arg, res, job_id, reread, ures>>

(* line 819: wait_for_job raises *)
UploadWaitRaised ==
    /\ upc = "waiting"
    /\ wpc = "raised"
    /\ exc' = wres
    /\ upc' = "handler"
    /\ UNCHANGED <<data, wait_arg, res, job_id, reread, ures, reqlog>>

(* lines 820-826: wait_for_job returned; the final get_job and the result *)
UploadFinalGet ==
    /\ upc = "waiting"
    /\ wpc = "returned"
    /\ \E s \in JobStates, failed \in 0..1 :
        /\ res' = [id |-> job_id, state |-> s]
        /\ ures' = Returned(UploadResult(failed, data.record_count, data.record_count,
                                          job_id))
    /\ reqlog' = Append(reqlog, Request("get_job", job_id))
    /\ upc' = "returned"
    /\ UNCHANGED <<data, wait_arg, job_id, exc, reread>>

(* line 820: the final get_job raises *)
UploadFinalGetRaises ==
    /\ upc = "waiting"
    /\ wpc = "returned"
    /\ reqlog' = Append(reqlog, Request("get_job", job_id))
    /\ exc' = RequestError("final get_job")
    /\ upc' = "handler"
    /\ UNCHANGED <<data, wait_arg, res, job_id, reread, ures>>

(* lines 830-832, 834: the handler reads the state; no abort: re-raise *)
HandlerNoAbort ==
    /\ upc = "handler"
    /\ \E s \in JobStates :
        /\ ~ShouldAbort(s)
        /\ res' = [id |-> job_id, state |-> s]
        /\ reread' = s
    /\ reqlog' = Append(reqlog, Request("get_job", job_id))
    /\ ures' = exc
    /\ upc' = "raised"
    /\ UNCHANGED <<data, wait_arg, job_id, exc>>

(* lines 830-834: the handler reads the state, aborts the job and re-raises *)
HandlerAbort ==
    /\ upc = "handler"
    /\ \E s \in JobStates :
        /\ ShouldAbort(s)
        /\ res' = [id |-> job_id, state |-> s]
        /\ reread' = s
    /\ reqlog' = reqlog \o <<Request("get_job", job_id), Request("abort_job", job_id)>>
    /\ ures' = exc
    /\ upc' = "raised"
    /\ UNCHANGED <<data, wait_arg, job_id, exc>>

(* line 831: the get_job of the handler raises: that exception leaves the handler *)
HandlerGetRaises ==
    /\ upc = "handler"
    /\ reqlog' = Append(reqlog, Request("get_job", job_id))
    /\ ures' = RequestError("get_job in the handler")
    /\ upc' = "raised"
    /\ UNCHANGED <<data, wait_arg, res, job_id, exc, reread>>

(* line 833: abort_job raises: that exception leaves the handler *)
HandlerAbortRaises ==
    /\ upc = "handler"
    /\ \E s \in JobStates :
        /\ ShouldAbort(s)
        /\ res' = [id |-> job_id, state |-> s]
        /\ reread' = s
    /\ reqlog' = reqlog \o <<Request("get_job", job_id), Request("abort_job", job_id)>>
    /\ ures' = RequestError("abort_job")
    /\ upc' = "raised"
    /\ UNCHANGED <<data, wait_arg, job_id, exc>>

UploadDone == upc \in {"returned", "raised"}

(* ------------------------------------------------------------------ *)
(* Properties of _upload_data                                          *)
(* ------------------------------------------------------------------ *)
CountOps(op, id) == Cardinality({i \in 1..Len(reqlog) : reqlog[i] = Request(op, id)})

HandlerEntered == exc # NoResult

(* the abort_job requests sent for the job of this call *)
Aborts == CountOps("abort_job", job_id)

(* C1: when the upload, the close, the wait or the final get_job raises, or the
   new job is not Open, the handler reads the job state once and calls abort_job
   exactly when the state read is Open, UploadComplete or InProgress; then an
   exception reaches the caller (the one caught, when the handler's own requests
   succeed) and no UploadResult is returned. *)
C1_AbortOnFailure ==
    /\ upc = "raised" /\ HandlerEntered /\ reread # "none" =>
          /\ Aborts = 1 <=> reread \in {"Open", "UploadComplete", "InProgress"}
          /\ Aborts = 0 <=> reread \in {"JobComplete", "Failed", "Aborted"}
          /\ ures.what # "abort_job" => ures = exc
    /\ Aborts > 0 => HandlerEntered /\ reread \in {"Open", "UploadComplete", "InProgress"}
    /\ HandlerEntered => ures.kind # "return" /\ upc \in {"handler", "raised"}
    /\ upc = "raised" => ures.kind = "raise"
    /\ upc = "raised" /\ job_id # "none" => HandlerEntered
    /\ upc = "returned" => ~HandlerEntered /\ Aborts = 0 /\ ures.kind = "return"
    /\ upc = "created" /\ res.state # "Open" => ENABLED UploadNotOpen

(* wait_for_job raised "failed", the handler read InProgress and aborted the job *)
C1_Witness ==
    /\ upc = "raised"
    /\ HandlerEntered
    /\ exc.what = "failed"
    /\ reread = "InProgress"
    /\ Aborts = 1
    /\ ures = exc

(* C2, as stated: after a failure of the upload, the close or the wait, the
   exception that reaches the caller is the one the handler caught, also when
   the handler's get_job or abort_job raises. *)
C2_OriginalPropagates ==
    upc = "raised" /\ HandlerEntered => ures = exc

(* the place of the first request op for the job of this call in the request
   log, 0 when there is none *)
FirstOp(op) ==
    IF CountOps(op, job_id) = 0 THEN 0
    ELSE CHOOSE i \in 1..Len(reqlog) :
            /\ reqlog[i] = Request(op, job_id)
            /\ \A j \in 1..(i - 1) : reqlog[j] # Request(op, job_id)

(* C29: the requests for the job of one _upload_data call come in the order
   create_job, upload_job_data, close_job, polls of wait_for_job, final get_job:
   the job is created once, before anything else; data is uploaded at most once,
   only for a job created Open, and never after close_job; a job that was not
   created Open ends in SalesforceBulkV2LoadError with nothing uploaded;
   close_job is sent at most once, after the upload has returned; no poll is
   made before close_job has returned; the result is returned after a get_job
   that follows the polls. *)
C29_RequestOrder ==
    /\ reqlog # <<>> => reqlog[1].op = "create_job"
    /\ Cardinality({i \in 1..Len(reqlog) : reqlog[i].op = "create_job"}) <= 1
    /\ CountOps("upload_job_data", job_id) <= 1
    /\ CountOps("close_job", job_id) <= 1
    /\ (CountOps("upload_job_data", job_id) = 1 /\ upc \in {"uploaded", "waiting", "handler"})
          => res.state = "Open"
    /\ upc = "uploaded" =>
          /\ CountOps("upload_job_data", job_id) = 1
          /\ CountOps("close_job", job_id) = 0
    /\ (job_id # "none" /\ exc = LoadError(res)) => CountOps("upload_job_data", job_id) = 0
    /\ CountOps("close_job", job_id) = 1 =>
          /\ FirstOp("upload_job_data") # 0
          /\ FirstOp("upload_job_data") < FirstOp("close_job")
          /\ exc.kind = "raise" => exc.what # "upload_job_data"
    /\ polls > 0 =>
          /\ FirstOp("close_job") # 0
          /\ FirstOp("close_job") < FirstOp("get_job")
          /\ exc.kind = "raise" => exc.what # "close_job"
    /\ FirstOp("get_job") # 0 /\ CountOps("close_job", job_id) = 0 => upc = "raised"
    /\ upc = "returned" =>
          /\ reqlog[Len(reqlog)] = Request("get_job", job_id)
          /\ CountOps("get_job", job_id) = polls + 1
          /\ CountOps("upload_job_data", job_id) = 1
          /\ CountOps("close_job", job_id) = 1
          /\ CountOps("abort_job", job_id) = 0

(* a call that returned after three polls: create, upload, close, three polls and
   the final get_job *)
C29_Witness ==
    /\ upc = "returned"
    /\ polls = 3
    /\ Len(reqlog) = 7

(* ------------------------------------------------------------------ *)
(* _upload_file                                                        *)
(* ------------------------------------------------------------------ *)
(* the concurrency arguments: invalid ones, 1, small pools *)
Concurrencies == {-1, 0, 1, 2, 3}

(* a concurrency argument above the maximum *)
OverMax == MAX_INGEST_JOB_PARALLELISM + 2

Operations == {"insert", "delete", "hardDelete"}

(* csv_file and records both given; csv_file names no file *)
BothInput == [source |-> "both", text |-> <<>>]

MissingFile == [source |-> "missing", text |-> <<>>]

(* a file of a one-column header and k lines of 60 MiB: every line is a chunk *)
BigText(k) ==
    <<Line(Body(73, 2, 1), "LF")>> \o [i \in 1..k |-> Line(Body(97, 60 * MiB, 1), "LF")]

SmallText(h, k) ==
    <<Line(h, "LF")>> \o [i \in 1..k |-> Line(Body(233, 40, 1), "LF")]

(* how a call of _upload_data fails, when it fails: create_job raises; the new
   job is not Open and the handler finds it ended; the upload raises and the
   handler aborts the job; the wait raises and the handler aborts the job *)
Faults == {"create", "not open", "upload", "wait"}

(* the calls of _upload_file: files that split into 0..MaxFewChunks chunks under
   every concurrency and with every way to fail, a file of MaxChunks chunks under a concurrency above the
   maximum, no input under every concurrency, and small inputs of every kind
   for every operation *)
FileCalls ==
    { [operation |-> "insert", input |-> FileInput(BigText(k)), batch_size |-> NoneArg,
       concurrency |-> c, fault |-> f] :
        k \in 0..MaxFewChunks, c \in Concurrencies, f \in Faults }
    \cup
    { [operation |-> "insert", input |-> FileInput(BigText(MaxChunks)),
       batch_size |-> NoneArg, concurrency |-> OverMax, fault |-> "wait"] }
    \cup
    { [operation |-> "insert", input |-> NoInput, batch_size |-> NoneArg,
       concurrency |-> c, fault |-> "create"] : c \in Concurrencies }
    \cup
    { [operation |-> op, input |-> in, batch_size |-> b, concurrency |-> c,
       fault |-> "upload"] :
        op \in Operations, b \in {NoneArg, IntArg(1)}, c \in {1, 2},
        in \in {NoInput, BothInput, MissingFile, FileInput(<<>>)}
               \cup {FileInput(SmallText(h, 3)) : h \in HeaderBodies}
               \cup {RecordsInput(SmallText(h, 3)) : h \in HeaderBodies} }

Workers_Unclamped(c) == c

(* workers = min(concurrency, MAX_INGEST_JOB_PARALLELISM) *)
Workers(c) == MinOf(c, MAX_INGEST_JOB_PARALLELISM)

(* operation in ("delete", "hardDelete") *)
IsDelete(op) == op \in {"delete", "hardDelete"}

HasFile(in) == in.source \in {"file", "both", "missing"}

HasRecords(in) == in.source \in {"records", "both"}

(* len(bis.readline().rstrip().split(delimiter)); "" splits into one field *)
HeaderColumns(text) == IF text = <<>> THEN 1 ELSE Head(text).cols

FileError(type, what) == [kind |-> "raise", type |-> type, what |-> what]

(* lines 728-746: the exception the checks of the arguments raise, or NoResult *)
SetupError(op, in) ==
    IF HasFile(in) /\ HasRecords(in)
    THEN FileError("SalesforceBulkV2LoadError", "both file and records")
    ELSE IF ~HasRecords(in) /\ HasFile(in) /\ in.source = "missing"
    THEN FileError("SalesforceBulkV2LoadError", "file not found")
    ELSE IF IsDelete(op) /\ ~HasFile(in)
    THEN FileError("AssertionError", "file is required")
    ELSE IF IsDelete(op) /\ HeaderColumns(in.text) # 1
    THEN FileError("SalesforceBulkV2LoadError", "invalid batch")
    ELSE NoResult

TaskIds == 1..Len(tasks)

(* the _upload_data calls that have started and not yet ended *)
InFlight == Cardinality({i \in TaskIds : tasks[i] = "running"})

(* the id the service gives the job of the i-th call *)
JobIdOf(i) == i

ResultsAdd_Front(rs, r) == <<r>> \o rs

(* results.extend(...): the next result goes to the end *)
ResultsAdd(rs, r) == Append(rs, r)

(* chunks the generator has yielded that the dispatcher has not taken *)
Waiting == Len(yielded) - Len(tasks)

(* chunks the dispatcher takes in one go: one, or a batch of chunk_n *)
Need == IF mode = "sequential" THEN 1 ELSE chunk_n

(* the dispatcher is inside next(split_data) *)
GenDemanded == fpc = "pull" /\ spc \in {"start", "loop"} /\ Waiting < Need

InitFileIdle ==
    /\ operation = "insert" /\ concurrency = 1 /\ workers = 0 /\ chunk_n = 0
    /\ mode = "none" /\ pool_workers = 0 /\ tasks = <<>> /\ collected = 0 /\ batch_start = 0
    /\ results = <<>> /\ fres = NoResult /\ joblog = <<>> /\ fault = "none" /\ fpc = "idle"

InitFileCall ==
    /\ \E call \in FileCalls :
        /\ operation = call.operation
        /\ concurrency = call.concurrency
        /\ csv_input = call.input
        /\ max_records_arg = call.batch_size
        /\ fault = call.fault
    /\ header = <<>> /\ lines = <<>> /\ max_records = 0 /\ max_bytes = 0
    /\ next_line = 1 /\ records_size = 0 /\ bytes_size = 0 /\ buff = <<>>
    /\ yielded = <<>> /\ spc = "idle"
    /\ workers = 0 /\ chunk_n = 0
    /\ mode = "none" /\ pool_workers = 0 /\ tasks = <<>> /\ collected = 0 /\ batch_start = 0
    /\ results = <<>> /\ fres = NoResult /\ joblog = <<>> /\ fpc = "start"

(* lines 728-746: a check of the arguments fails *)
FileSetupError ==
    /\ fpc = "start"
    /\ SetupError(operation, csv_input) # NoResult
    /\ fres' = SetupError(operation, csv_input)
    /\ fpc' = "raised"
    /\ UNCHANGED <<joblog, fault>>
    /\ UNCHANGED <<operation, concurrency, batch_start, workers, chunk_n, mode, pool_workers, tasks,
                   collected, results>>
    /\ UNCHANGED splitVars

(* lines 748-756: the checks pass; the generator is made, not yet run *)
FileBegin ==
    /\ fpc = "start"
    /\ SetupError(operation, csv_input) = NoResult
    /\ workers' = Workers(concurrency)
    /\ chunk_n' = Workers(concurrency)
    /\ mode' = IF Workers(concurrency) = 1 THEN "sequential" ELSE "pooled"
    /\ spc' = "start"
    /\ fpc' = "pull"
    /\ UNCHANGED <<joblog, fault>>
    /\ UNCHANGED <<operation, concurrency, batch_start, pool_workers, tasks, collected, results, fres>>
    /\ UNCHANGED <<csv_input, max_records_arg, header, lines, max_records, max_bytes,
                   next_line, records_size, bytes_size, buff, yielded>>

(* line 772 with n < 0: islice refuses the n of take(n, ...) *)
FileChunkedError ==
    /\ fpc = "pull"
    /\ mode = "pooled"
    /\ chunk_n < 0
    /\ fres' = FileError("ValueError", "islice")
    /\ fpc' = "raised"
    /\ UNCHANGED <<joblog, fault>>
    /\ UNCHANGED <<operation, concurrency, batch_start, workers, chunk_n, mode, pool_workers, tasks,
                   collected, results>>

(* lines 767, 772: the generator raises inside next() *)
FileSplitError ==
    /\ fpc = "pull"
    /\ Need > 0
    /\ spc = "raised"
    /\ fres' = FileError("ValueError", "split")
    /\ fpc' = "raised"
    /\ UNCHANGED <<joblog, fault>>
    /\ UNCHANGED <<operation, concurrency, batch_start, workers, chunk_n, mode, pool_workers, tasks,
                   collected, results>>

(* lines 759-767: the next chunk goes to _upload_data, in the calling thread *)
FileCallUpload ==
    /\ fpc = "pull"
    /\ mode = "sequential"
    /\ Waiting >= 1
    /\ tasks' = Append(tasks, "queued")
    /\ batch_start' = Len(tasks)
    /\ pool_workers' = 1
    /\ fpc' = "collect"
    /\ UNCHANGED <<joblog, fault>>
    /\ UNCHANGED <<operation, concurrency, workers, chunk_n, mode, collected, results, fres>>

(* lines 772-784: a batch of chunks is complete: the pool is made and pool.map
   submits one _upload_data call for each chunk *)
FileSubmitBatch ==
    /\ fpc = "pull"
    /\ mode = "pooled"
    /\ chunk_n > 0
    /\ Waiting >= 1
    /\ Waiting = chunk_n \/ spc = "done"
    /\ workers' = MinOf(workers, Waiting)
    /\ pool_workers' = MinOf(workers, Waiting)
    /\ tasks' = tasks \o [i \in 1..Waiting |-> "queued"]
    /\ batch_start' = Len(tasks)
    /\ fpc' = "collect"
    /\ UNCHANGED <<joblog, fault>>
    /\ UNCHANGED <<operation, concurrency, chunk_n, mode, collected, results,
                   fres>>

(* lines 759-767, 784: the chunk the i-th call is given as data *)
TaskData(i) == yielded[i]

(* line 817: upload_job_data(job_id, unpacked_data) *)
UploadRequest(id, text) == [op |-> "upload_job_data", job |-> id, data |-> text]

HandlerJob_First(i) == JobIdOf(1)

(* lines 814, 831-833: the job_id the handler of the i-th call reads and aborts *)
HandlerJob(i) == JobIdOf(i)

(* lines 817-820: the requests of a call after create_job when nothing fails
   (wait_for_job as one poll) *)
SuccessTail(i) ==
    <<UploadRequest(JobIdOf(i), TaskData(i).csv_text), Request("close_job", JobIdOf(i)),
      Request("get_job", JobIdOf(i)), Request("get_job", JobIdOf(i))>>

(* lines 808-834: the requests of a failing call after create_job *)
FailureTail(i, f) ==
    CASE f = "create" -> <<>>
      [] f = "not open" -> <<Request("get_job", HandlerJob(i))>>
      [] f = "upload" ->
            <<UploadRequest(JobIdOf(i), TaskData(i).csv_text),
              Request("get_job", HandlerJob(i)), Request("abort_job", HandlerJob(i))>>
      [] OTHER ->
            <<UploadRequest(JobIdOf(i), TaskData(i).csv_text),
              Request("close_job", JobIdOf(i)), Request("get_job", JobIdOf(i)),
              Request("get_job", HandlerJob(i)), Request("abort_job", HandlerJob(i))>>

(* lines 808-814: a thread takes the oldest waiting call; create_job gives the job *)
TaskStart(i) ==
    /\ fpc = "collect"
    /\ tasks[i] = "queued"
    /\ \A j \in 1..(i - 1) : tasks[j] # "queued"
    /\ InFlight < pool_workers
    /\ tasks' = [tasks EXCEPT ![i] = "running"]
    /\ reqlog' = Append(reqlog, Request("create_job", JobIdOf(i)))
    /\ joblog' = Append(joblog, <<Request("create_job", JobIdOf(i))>>)
    /\ UNCHANGED <<operation, concurrency, batch_start, workers, chunk_n, mode, pool_workers,
                   collected, results, fres, fault, fpc>>

(* lines 816-826: the call returns its UploadResult *)
TaskSucceed(i) ==
    /\ tasks[i] = "running"
    /\ tasks' = [tasks EXCEPT ![i] = "ok"]
    /\ joblog' = [joblog EXCEPT ![i] = @ \o SuccessTail(i)]
    /\ UNCHANGED <<operation, concurrency, batch_start, workers, chunk_n, mode, pool_workers,
                   collected, results, fres, fault, fpc>>

(* lines 808-834: the call raises, out of create_job or after its handler *)
TaskFail(i) ==
    /\ tasks[i] = "running"
    /\ tasks' = [tasks EXCEPT ![i] = "failed"]
    /\ joblog' = [joblog EXCEPT ![i] = @ \o FailureTail(i, fault)]
    /\ UNCHANGED <<operation, concurrency, batch_start, workers, chunk_n, mode, pool_workers,
                   collected, results, fres, fault, fpc>>

ResultOf_BatchFirst(i) ==
    UploadResult(0, TaskData(batch_start + 1).record_count,
                 TaskData(batch_start + 1).record_count, JobIdOf(batch_start + 1))

(* the UploadResult of the i-th call: lines 821-826 *)
ResultOf(i) ==
    UploadResult(0, TaskData(i).record_count, TaskData(i).record_count, JobIdOf(i))

(* lines 757-768, 784: the dispatcher takes the next result, in the order of the
   calls (with workers == 1 into the list that results is extended with) *)
FileCollect ==
    /\ fpc = "collect"
    /\ collected < Len(tasks)
    /\ tasks[collected + 1] = "ok"
    /\ results' = ResultsAdd(results, ResultOf(collected + 1))
    /\ collected' = collected + 1
    /\ UNCHANGED <<joblog, fault>>
    /\ UNCHANGED <<operation, concurrency, batch_start, workers, chunk_n, mode, pool_workers, tasks, fres, fpc>>

BatchDone_Eager == TRUE

(* lines 767, 775-784: the call has returned; the results of the whole batch are
   taken and the pool is left *)
BatchDone == collected = Len(tasks)

(* lines 767, 772-784: all results of the chunks taken are in: back to the generator *)
FileNextPull ==
    /\ fpc = "collect"
    /\ BatchDone
    /\ fpc' = "pull"
    /\ UNCHANGED <<joblog, fault>>
    /\ UNCHANGED <<operation, concurrency, batch_start, workers, chunk_n, mode, pool_workers, tasks,
                   collected, results, fres>>

(* lines 759, 784: the next result is an exception: it leaves the loop; the calls
   that no thread has taken yet are cancelled *)
FileCatch ==
    /\ fpc = "collect"
    /\ collected < Len(tasks)
    /\ tasks[collected + 1] = "failed"
    /\ tasks' = [i \in TaskIds |-> IF tasks[i] = "queued" THEN "cancelled" ELSE tasks[i]]
    /\ fpc' = "unwind"
    /\ UNCHANGED <<joblog, fault>>
    /\ UNCHANGED <<operation, concurrency, batch_start, workers, chunk_n, mode, pool_workers,
                   collected, results, fres>>

(* line 775: the pool is left once its running calls have ended; the exception
   reaches the caller of _upload_file *)
FileRaise ==
    /\ fpc = "unwind"
    /\ InFlight = 0
    /\ fres' = FileError("UploadError", collected + 1)
    /\ fpc' = "raised"
    /\ UNCHANGED <<joblog, fault>>
    /\ UNCHANGED <<operation, concurrency, batch_start, workers, chunk_n, mode, pool_workers, tasks,
                   collected, results>>

(* line 786: the generator is exhausted (or n is 0 and chunked gives nothing) *)
FileReturn ==
    /\ fpc = "pull"
    /\ \/ mode = "pooled" /\ chunk_n = 0
       \/ Need > 0 /\ spc = "done" /\ Waiting = 0
    /\ fres' = Returned(results)
    /\ fpc' = "returned"
    /\ UNCHANGED <<joblog, fault>>
    /\ UNCHANGED <<operation, concurrency, batch_start, workers, chunk_n, mode, pool_workers, tasks,
                   collected, results>>

FileDone == fpc \in {"returned", "raised"}

(* ------------------------------------------------------------------ *)
(* Properties of _upload_file                                          *)
(* ------------------------------------------------------------------ *)
(* C9: with concurrency = 1 the chunks are uploaded one at a time in input order:
   a call for a chunk exists only when the calls of all earlier chunks have
   returned, the i-th result is the one of the i-th chunk, and the list returned
   holds one result for each chunk. *)
C9_SequentialInOrder ==
    concurrency = 1 =>
        /\ InFlight <= 1
        /\ \A i \in TaskIds : i < Len(tasks) => tasks[i] = "ok"
        /\ Len(tasks) <= Len(yielded)
        /\ Len(results) <= Len(tasks)
        /\ \A i \in 1..Len(results) :
              /\ tasks[i] = "ok"
              /\ results[i].job_id = JobIdOf(i)
              /\ results[i].numberRecordsTotal = yielded[i].record_count
        /\ fpc = "returned" =>
              /\ fres = Returned(results)
              /\ Len(results) = Len(yielded)

(* three chunks, concurrency 1: the three results are returned *)
C9_Witness ==
    /\ concurrency = 1
    /\ fpc = "returned"
    /\ Len(yielded) = 3
    /\ Len(fres.value) = 3

(* C10: the number of _upload_data calls in flight never exceeds
   min(concurrency, MAX_INGEST_JOB_PARALLELISM) (and is 0 when that is negative). *)
C10_InFlightBounded ==
    InFlight <= MaxOf(0, MinOf(concurrency, MAX_INGEST_JOB_PARALLELISM))

(* concurrency 12 is clamped: 10 calls in flight and an 11th chunk still to come *)
C10_Witness ==
    /\ concurrency > MAX_INGEST_JOB_PARALLELISM
    /\ InFlight = MAX_INGEST_JOB_PARALLELISM
    /\ Len(csv_input.text) > MAX_INGEST_JOB_PARALLELISM + 1

(* C11: with concurrency > 1 the chunks go in consecutive batches of at most
   min(concurrency, MAX_INGEST_JOB_PARALLELISM) chunks, one batch after another:
   while a call of the current batch is waiting or has asked for its job, every
   call of the earlier batches has ended, and create_job was asked only for calls
   that have started, in the order of the chunks. *)
C11_BatchesSequential ==
    concurrency > 1 =>
        /\ Len(tasks) - batch_start <= Workers(concurrency)
        /\ batch_start % Workers(concurrency) = 0
        /\ \A i \in TaskIds : i <= batch_start => tasks[i] \notin {"queued", "running"}
        /\ \A r \in 1..Len(reqlog) :
              /\ reqlog[r] = Request("create_job", JobIdOf(r))
              /\ tasks[r] \in {"running", "ok", "failed"}
        /\ \A i \in TaskIds : tasks[i] \in {"running", "ok", "failed"} => i <= Len(reqlog)

(* a second batch whose calls run side by side *)
C11_Witness ==
    /\ concurrency > 1
    /\ batch_start > 0
    /\ InFlight >= 2
    /\ \A i \in TaskIds : i > batch_start => tasks[i] = "running"

(* C12: a delete or hardDelete whose CSV header does not have exactly one column
   ends in SalesforceBulkV2LoadError (the invalid batch error), with no job
   created and no request made. *)
C12_DeleteHeaderChecked ==
    (/\ fpc \notin {"idle", "start"}
     /\ IsDelete(operation)
     /\ csv_input.source \in {"file", "records"}
     /\ HeaderColumns(csv_input.text) # 1)
    => /\ fpc = "raised"
       /\ fres = FileError("SalesforceBulkV2LoadError", "invalid batch")
       /\ reqlog = <<>>
       /\ tasks = <<>>

(* C13: setup errors fail fast: file and records both given, or a file that does
   not exist, end in SalesforceBulkV2LoadError; with neither source the call ends
   in the ValueError of the chunker; and in each of these cases no create_job
   request is ever issued. *)
C13_SetupErrorsFailFast ==
    /\ (csv_input.source \in {"both", "missing"} /\ fpc \notin {"idle", "start"})
       => /\ fpc = "raised"
          /\ fres.type = "SalesforceBulkV2LoadError"
    /\ (csv_input.source = "none" /\ FileDone)
       => /\ fpc = "raised"
          /\ fres.type = "ValueError"
    /\ (csv_input.source \in {"both", "missing", "none"} /\ fpc # "idle")
       => /\ reqlog = <<>>
          /\ tasks = <<>>

(* the call has an input that passes the checks of the arguments and has a
   header line *)
ValidCall ==
    /\ SetupError(operation, csv_input) = NoResult
    /\ csv_input.source \in {"file", "records"}
    /\ csv_input.text # <<>>

NoUploadFailed == \A i \in TaskIds : tasks[i] \notin {"failed", "cancelled"}

(* the requests of the i-th call that are uploads of data *)
UploadsOf(i) == {r \in 1..Len(joblog[i]) : joblog[i][r].op = "upload_job_data"}

(* C27: a call of _upload_file with a valid input in which no upload fails ends
   by returning; the chunker has run to the end of an input that has data lines;
   there is one call, one job and one upload for each chunk yielded, the upload
   carries the text of that chunk to the job of that chunk, no request of a call
   goes to the job of another call, and the list returned holds for each chunk,
   in order, the id of its job and its record_count. *)
C27_OneJobPerChunk ==
    (FileDone /\ ValidCall /\ NoUploadFailed) =>
        /\ fpc = "returned"
        /\ Len(csv_input.text) > 1 => spc = "done"
        /\ Len(joblog) = Len(yielded)
        /\ \A i \in 1..Len(joblog) :
              /\ joblog[i][1] = Request("create_job", JobIdOf(i))
              /\ \A r \in 2..Len(joblog[i]) : joblog[i][r].op # "create_job"
              /\ Cardinality(UploadsOf(i)) = 1
              /\ \A r \in UploadsOf(i) :
                    joblog[i][r] = UploadRequest(JobIdOf(i), yielded[i].csv_text)
              /\ \A r \in 1..Len(joblog[i]) : joblog[i][r].job = JobIdOf(i)
        /\ fres = Returned(results)
        /\ Len(results) = Len(yielded)
        /\ \A i \in 1..Len(results) :
              /\ results[i].job_id = JobIdOf(i)
              /\ results[i].numberRecordsTotal = yielded[i].record_count

(* C28: with concurrency > 1 the i-th result is the one of the i-th chunk, in
   whatever order the calls of a batch end, and the list returned holds the
   results of all calls. *)
C28_ResultsInChunkOrder ==
    concurrency > 1 =>
        /\ \A i \in 1..Len(results) :
              /\ results[i].job_id = JobIdOf(i)
              /\ results[i].numberRecordsTotal = yielded[i].record_count
        /\ fpc = "returned" =>
              /\ fres = Returned(results)
              /\ Len(results) = Len(tasks)

(* a batch of three: the third call has ended before the second, the result of
   the first is in the list *)
C28_Witness ==
    /\ concurrency = 3
    /\ fpc = "collect"
    /\ tasks = <<"ok", "running", "ok">>
    /\ results = <<ResultOf(1)>>

(* C30: with concurrency = 1, a call of _upload_data that fails is the last one:
   the exception leaves _upload_file, which returns no list; no job is asked for
   a later chunk; the jobs of the earlier chunks have received the requests of
   their own calls and no other, and no abort. *)
C30_FailureStopsSequential ==
    concurrency = 1 =>
        \A k \in TaskIds :
            tasks[k] = "failed" =>
                /\ k = Len(tasks)
                /\ fpc \in {"collect", "unwind", "raised"}
                /\ fres.kind # "return"
                /\ fpc = "raised" => fres.kind = "raise"
                /\ Len(joblog) = k
                /\ Len(reqlog) = k
                /\ \A i \in 1..(k - 1) :
                      /\ tasks[i] = "ok"
                      /\ \A r \in 1..Len(joblog[i]) : joblog[i][r].op # "abort_job"
                      /\ \A j \in 1..k : j # i =>
                            \A r \in 1..Len(joblog[j]) : joblog[j][r].job # JobIdOf(i)

(* the upload of the second of four chunks failed and its job was aborted *)
C30_Witness ==
    /\ concurrency = 1
    /\ fpc = "raised"
    /\ Len(tasks) = 2
    /\ tasks[2] = "failed"
    /\ Len(csv_input.text) = 5
    /\ joblog[2][Len(joblog[2])] = Request("abort_job", JobIdOf(2))

(* ------------------------------------------------------------------ *)
(* create_job                                                          *)
(* ------------------------------------------------------------------ *)
NoneStr == [set |-> FALSE, v |-> ""]

Str(x) == [set |-> TRUE, v |-> x]

(* the truth value of a str | None *)
Truthy(a) == a.set /\ a.v # ""

SFOperations == {"insert", "update", "upsert", "delete", "hardDelete", "query", "queryAll"}

QueryArgs == {NoneStr, Str(""), Str("SELECT Id FROM Account")}

ExternalIdArgs == {NoneStr, Str(""), Str("Id"), Str("Ext__c")}

ColumnDelimiters == {"COMMA", "TAB"}

CreateArgs(op, q, delim, eol, ext) ==
    [operation |-> op, query |-> q, column_delimiter |-> delim, line_ending |-> eol,
     external_id_field |-> ext]

PublicCall(method, a) == [method |-> method, args |-> a]

(* the public operations with the arguments each one accepts *)
PublicCalls ==
    { PublicCall(m, CreateArgs("", NoneStr, d, e, NoneStr)) :
        m \in {"insert", "update", "hard_delete"}, d \in ColumnDelimiters, e \in LineEndings }
    \cup
    { PublicCall("upsert", CreateArgs("", NoneStr, d, e, x)) :
        d \in ColumnDelimiters, e \in LineEndings, x \in ExternalIdArgs \ {NoneStr} }
    \cup
    { PublicCall("soft_delete", CreateArgs("", NoneStr, d, e, x)) :
        d \in ColumnDelimiters, e \in LineEndings, x \in ExternalIdArgs }
    \cup
    { PublicCall(m, CreateArgs("", q, d, e, NoneStr)) :
        m \in {"query", "query_all"}, q \in QueryArgs \ {NoneStr},
        d \in ColumnDelimiters, e \in LineEndings }
    \cup
    { PublicCall("create_job", CreateArgs(op, q, "COMMA", "LF", x)) :
        op \in SFOperations, q \in QueryArgs, x \in ExternalIdArgs }

(* the operation each public method names *)
OperationOf(method) ==
    CASE method = "insert" -> "insert"
      [] method = "update" -> "update"
      [] method = "upsert" -> "upsert"
      [] method = "soft_delete" -> "delete"
      [] method = "hard_delete" -> "hardDelete"
      [] method = "query" -> "query"
      [] method = "query_all" -> "queryAll"

(* the create_job call a public call leads to: query and query_all pass query,
   upsert and soft_delete pass external_id_field through _upload_file and
   _upload_data, the other ingest operations leave it None *)
ArgsOf(call) ==
    IF call.method = "create_job" THEN call.args
    ELSE IF call.method \in {"query", "query_all"}
    THEN CreateArgs(OperationOf(call.method), call.args.query,
                    call.args.column_delimiter, call.args.line_ending, NoneStr)
    ELSE IF call.method \in {"upsert", "soft_delete"}
    THEN CreateArgs(OperationOf(call.method), NoneStr, call.args.column_delimiter,
                    call.args.line_ending, call.args.external_id_field)
    ELSE CreateArgs(OperationOf(call.method), NoneStr, call.args.column_delimiter,
                    call.args.line_ending, NoneStr)

EmptyDict == [k \in {} |-> ""]

(* is_query = operation in ("query", "queryAll") *)
IsQueryOperation(op) == op \in {"query", "queryAll"}

(* if external_id_field: *)
HasExternalId(a) == Truthy(a.external_id_field)

(* the object_name of the Bulk2SFType *)
ObjectName == "Account"

(* lines 581-600: the payload *)
Payload(a) ==
    ("operation" :> a.operation @@ "columnDelimiter" :> a.column_delimiter
        @@ "lineEnding" :> a.line_ending)
    @@ (IF HasExternalId(a) THEN "externalIdFieldName" :> a.external_id_field.v
        ELSE EmptyDict)
    @@ (IF IsQueryOperation(a.operation) THEN "query" :> a.query.v
        ELSE ("object" :> ObjectName @@ "contentType" :> "CSV"))

(* _get_endpoint(None, is_query) *)
GetEndpoint(is_q) == IF is_q THEN "query" ELSE "ingest"

ExtractError == [kind |-> "raise", type |-> "SalesforceBulkV2ExtractError",
                 what |-> "Query is required for query jobs"]

QueryRequired_Never(a) == FALSE

(* lines 591-593: a query operation with no query *)
QueryRequired(a) == IsQueryOperation(a.operation) /\ ~Truthy(a.query)

NoArgs == [operation |-> "none"]

InitJobIdle ==
    /\ jcall = PublicCall("none", NoArgs) /\ job_args = NoArgs /\ payload = EmptyDict
    /\ posted = <<>> /\ jres = NoResult /\ jpc = "idle"

InitJobCall ==
    /\ jcall \in PublicCalls
    /\ job_args = NoArgs /\ payload = EmptyDict
    /\ posted = <<>> /\ jres = NoResult /\ jpc = "call"

(* the public operation reaches create_job *)
JobDispatch ==
    /\ jpc = "call"
    /\ job_args' = ArgsOf(jcall)
    /\ jpc' = "create_job"
    /\ UNCHANGED <<jcall, payload, posted, jres>>

(* lines 581-593: a query job without a query: the error, before any request *)
CreateJobQueryMissing ==
    /\ jpc = "create_job"
    /\ QueryRequired(job_args)
    /\ payload' = [k \in DOMAIN Payload(job_args) \ {"query"} |-> Payload(job_args)[k]]
    /\ jres' = ExtractError
    /\ jpc' = "raised"
    /\ UNCHANGED <<jcall, job_args, posted>>

(* lines 581-607: the payload is posted and the new job returned *)
CreateJobPost ==
    /\ jpc = "create_job"
    /\ ~QueryRequired(job_args)
    /\ payload' = Payload(job_args)
    /\ posted' = Append(posted, [method |-> "POST",
                                 endpoint |-> GetEndpoint(IsQueryOperation(job_args.operation)),
                                 json |-> Payload(job_args)])
    /\ \E id \in JobIds : jres' = Returned(id)
    /\ jpc' = "returned"
    /\ UNCHANGED <<jcall, job_args>>

(* lines 601-606: the request raises *)
CreateJobPostRaises ==
    /\ jpc = "create_job"
    /\ ~QueryRequired(job_args)
    /\ payload' = Payload(job_args)
    /\ posted' = Append(posted, [method |-> "POST",
                                 endpoint |-> GetEndpoint(IsQueryOperation(job_args.operation)),
                                 json |-> Payload(job_args)])
    /\ jres' = RequestError("create_job")
    /\ jpc' = "raised"
    /\ UNCHANGED <<jcall, job_args>>

(* ------------------------------------------------------------------ *)
(* Properties of create_job                                            *)
(* ------------------------------------------------------------------ *)
(* ... the payload j carries key k *)
Carries(j, k) == k \in DOMAIN j

(* C17: every job created carries an external id field if and only if its
   operation is upsert. *)
C17_ExternalIdIffUpsert ==
    \A r \in 1..Len(posted) :
        Carries(posted[r].json, "externalIdFieldName")
            <=> posted[r].json["operation"] = "upsert"

(* C18: the payload carries a query if and only if the operation is query or
   queryAll; a query operation with a missing or empty query ends in
   SalesforceBulkV2ExtractError with no request sent; every ingest payload
   carries object and contentType = CSV and no query, whatever query is passed. *)
C18_QueryIffQueryOperation ==
    /\ \A r \in 1..Len(posted) :
          LET j == posted[r].json
          IN  /\ j["operation"] = job_args.operation
              /\ Carries(j, "query") <=> IsQueryOperation(j["operation"])
              /\ IsQueryOperation(j["operation"])
                    => /\ j["query"] = job_args.query.v
                       /\ j["query"] # ""
                       /\ job_args.query.set
                       /\ posted[r].endpoint = "query"
              /\ ~IsQueryOperation(j["operation"])
                    => /\ Carries(j, "object") /\ j["object"] = ObjectName
                       /\ Carries(j, "contentType") /\ j["contentType"] = "CSV"
                       /\ posted[r].endpoint = "ingest"
    /\ (jpc \in {"returned", "raised"} /\ IsQueryOperation(job_args.operation)
            /\ (~job_args.query.set \/ job_args.query.v = ""))
       => /\ jres = ExtractError
          /\ posted = <<>>
    /\ jres = ExtractError
       => /\ IsQueryOperation(job_args.operation)
          /\ ~Carries(payload, "query")
          /\ posted = <<>>

(* an ingest job created although a query was passed *)
C18_Witness ==
    /\ jpc = "returned"
    /\ job_args.operation = "insert"
    /\ Truthy(job_args.query)
    /\ Len(posted) = 1
    /\ ~Carries(posted[1].json, "query")

(* ------------------------------------------------------------------ *)
(* query, query_all, get_query_results, _filter_null_bytes             *)
(* ------------------------------------------------------------------ *)
(* the character \x00 *)
NUL == 0

RECURSIVE FilterNullBytes_First(_)
FilterNullBytes_First(b) ==
    IF b = <<>> THEN <<>>
    ELSE IF Head(b) = NUL THEN Tail(b)
    ELSE <<Head(b)>> \o FilterNullBytes_First(Tail(b))

(* b.replace("\x00", ""): every occurrence is removed, left to right *)
RECURSIVE FilterNullBytes(_)
FilterNullBytes(b) ==
    IF b = <<>> THEN <<>>
    ELSE IF Head(b) = NUL THEN FilterNullBytes(Tail(b))
    ELSE <<Head(b)>> \o FilterNullBytes(Tail(b))

(* response texts: "a\x00b", "\x00\x00b\x00", "ab" *)
PageTexts == { <<97, NUL, 98>>, <<NUL, NUL, 98, NUL>>, <<97, 98>> }

(* the Sforce-Locator header of a response: absent, or a value *)
LocatorHeaders == {NoneStr, Str(""), Str("null"), Str("A"), Str("B"), Str("INIT")}

(* result.headers.get("Sforce-Locator", "null"), then "null" becomes "" *)
ResultLocator(h) ==
    LET got == IF h.set THEN h.v ELSE "null"
    IN  IF got = "null" THEN "" ELSE got

(* the response is the last page of the job *)
IsLastPage(h) == ResultLocator(h) = ""

Response(h, text) == [locator_header |-> h, text |-> text]

(* lines 679-681: the locator parameter of the request, if any *)
SentLocator(loc) == IF loc # "" /\ loc # "null" THEN Str(loc) ELSE NoneStr

(* lines 204-206 / 240-242: "INIT" stands for the first request *)
RequestLocator(loc) == IF loc = "INIT" THEN "" ELSE loc

QueryWaits == {5000}

InitQueryIdle ==
    /\ q_method = "none" /\ q_query = NoneStr /\ q_wait = 0 /\ q_job = "none"
    /\ locator = "" /\ requests = <<>> /\ responses = <<>> /\ pages = <<>>
    /\ qres = NoResult /\ qpc = "idle"

InitQueryCall ==
    /\ q_method \in {"query", "query_all"}
    /\ q_query \in QueryArgs \ {NoneStr}
    /\ q_wait \in QueryWaits
    /\ q_job = "none"
    /\ locator = "" /\ requests = <<>> /\ responses = <<>> /\ pages = <<>>
    /\ qres = NoResult /\ qpc = "start"

(* lines 199-204 / 235-240: the first next(): create_job is called *)
QueryStart ==
    /\ qpc = "start"
    /\ jcall' = PublicCall(q_method, CreateArgs("", q_query, "COMMA", "LF", NoneStr))
    /\ job_args' = ArgsOf(jcall')
    /\ jpc' = "create_job"
    /\ qpc' = "creating"
    /\ UNCHANGED <<payload, posted, jres>>
    /\ UNCHANGED <<q_method, q_query, q_wait, q_job, locator, requests, responses, pages,
                   qres>>

(* lines 199-204: create_job raises *)
QueryCreateRaised ==
    /\ qpc = "creating"
    /\ jpc = "raised"
    /\ qres' = jres
    /\ qpc' = "raised"
    /\ UNCHANGED <<q_method, q_query, q_wait, q_job, locator, requests, responses, pages>>

(* lines 205-206 / 241-242: job_id = res["id"]; wait_for_job(job_id, True, wait) *)
QueryWait ==
    /\ qpc = "creating"
    /\ jpc = "returned"
    /\ q_job' = jres.value
    /\ wait' = q_wait
    /\ is_query' = TRUE
    /\ wjob' = jres.value
    /\ wpc' = "start"
    /\ qpc' = "waiting"
    /\ UNCHANGED <<q_method, q_query, q_wait, locator, requests, responses, pages, qres>>
    /\ UNCHANGED <<now, expiration_time, job_status, delay_timeout, delay_cnt, wres,
                   polls, sleeps, firstTerminal, afterTerminal, afterDeadline, reqlog>>

(* line 206 / 242: wait_for_job raises *)
QueryWaitRaised ==
    /\ qpc = "waiting"
    /\ wpc = "raised"
    /\ qres' = wres
    /\ qpc' = "raised"
    /\ UNCHANGED <<q_method, q_query, q_wait, q_job, locator, requests, responses, pages>>

WaitReturned_OrRaised == wpc \in {"returned", "raised"}

(* line 206 / 242: the call of wait_for_job returns *)
WaitReturned == wpc = "returned"

(* lines 208 / 244: wait_for_job returned; locator = "INIT" *)
QueryWaitReturned ==
    /\ qpc = "waiting"
    /\ WaitReturned
    /\ locator' = "INIT"
    /\ qpc' = "loop"
    /\ UNCHANGED <<q_method, q_query, q_wait, q_job, requests, responses, pages, qres>>

(* lines 209-214 / 245-250 with 673-700: one turn of the loop, up to the yield:
   the request with the current locator, the response, the page *)
QueryPage ==
    /\ qpc = "loop"
    /\ locator # ""
    /\ \E h \in LocatorHeaders, text \in PageTexts :
        /\ Len(responses) + 1 < MaxPages \/ IsLastPage(h)
        /\ requests' = Append(requests, SentLocator(RequestLocator(locator)))
        /\ responses' = Append(responses, Response(h, text))
        /\ locator' = ResultLocator(h)
        /\ pages' = Append(pages, FilterNullBytes(text))
    /\ UNCHANGED <<q_method, q_query, q_wait, q_job, qres, qpc>>

(* lines 685-690: the result request raises *)
QueryPageRaises ==
    /\ qpc = "loop"
    /\ locator # ""
    /\ requests' = Append(requests, SentLocator(RequestLocator(locator)))
    /\ qres' = RequestError("get_query_results")
    /\ qpc' = "raised"
    /\ UNCHANGED <<q_method, q_query, q_wait, q_job, locator, responses, pages>>

(* line 209 / 245: the locator is empty: the generator ends *)
QueryStop ==
    /\ qpc = "loop"
    /\ locator = ""
    /\ qres' = Returned("StopIteration")
    /\ qpc' = "done"
    /\ UNCHANGED <<q_method, q_query, q_wait, q_job, locator, requests, responses, pages>>

(* ------------------------------------------------------------------ *)
(* Properties of query and query_all                                   *)
(* ------------------------------------------------------------------ *)
(* C14: the first result request carries no locator, request i+1 carries the
   locator of response i, no request follows a response with an empty, absent or
   "null" locator, page i is the text of response i, and the generator stops
   after n requests and n pages exactly when response n is such a last page. *)
C14_PagerFollowsLocators ==
    /\ Len(requests) >= 1 => requests[1] = NoneStr
    /\ \A i \in 1..Len(responses) :
          /\ i < Len(requests) => requests[i + 1] = Str(ResultLocator(responses[i].locator_header))
          /\ i < Len(requests) => ~IsLastPage(responses[i].locator_header)
    /\ Len(pages) = Len(responses)
    /\ \A i \in 1..Len(pages) : pages[i] = FilterNullBytes(responses[i].text)
    /\ qpc = "done"
          => /\ Len(requests) = Len(responses)
             /\ Len(responses) >= 1
             /\ IsLastPage(responses[Len(responses)].locator_header)

(* C15: one job is created for a run and no result page is requested before
   wait_for_job has seen that job JobComplete: when the job ends Failed or
   Aborted, or the wait times out, no result request is ever sent and the
   error of wait_for_job is how the generator ends. *)
C15_CompleteBeforePaging ==
    /\ Len(posted) <= 1
    /\ Len(requests) >= 1
          => /\ Len(posted) = 1
             /\ posted[1].json["operation"] = OperationOf(q_method)
             /\ posted[1].json["query"] = q_query.v
             /\ wpc = "returned"
             /\ wjob = q_job
             /\ is_query
             /\ firstTerminal = "JobComplete"
    /\ (qpc # "idle" /\ wpc = "raised")
          => /\ requests = <<>>
             /\ pages = <<>>
             /\ qpc \in {"waiting", "raised"}
             /\ qpc = "raised" => qres = wres
    /\ (qpc # "idle" /\ firstTerminal \in {"Failed", "Aborted"}) => requests = <<>>

(* the job was seen Failed and the generator ended with the error of the wait *)
C15_Witness ==
    /\ qpc = "raised"
    /\ firstTerminal = "Failed"
    /\ RaisedJobFailed
    /\ qres = wres
    /\ Len(posted) = 1

(* C16: a page yielded holds no null byte and is the response text with the
   null bytes taken out and the other characters kept in their order;
   filtering a second time changes nothing; "a\x00b" gives "ab". *)
C16_NullBytesStripped ==
    /\ \A i \in 1..Len(pages) :
          /\ \A k \in 1..Len(pages[i]) : pages[i][k] # NUL
          /\ pages[i] = SelectSeq(responses[i].text, LAMBDA c : c # NUL)
          /\ FilterNullBytes(pages[i]) = pages[i]
    /\ \A t \in PageTexts : FilterNullBytes(FilterNullBytes(t)) = FilterNullBytes(t)
    /\ FilterNullBytes(<<97, NUL, 98>>) = <<97, 98>>

(* a page of a response text with several null bytes has been yielded *)
C16_Witness ==
    \E i \in 1..Len(pages) :
        /\ responses[i].text = <<NUL, NUL, 98, NUL>>
        /\ pages[i] = <<98>>

(* ------------------------------------------------------------------ *)
(* Salesforce.query_all_iter, Salesforce.query_all                     *)
(* ------------------------------------------------------------------ *)
(* a result page: its records, done, and whether it has a nextRecordsUrl *)
RestPage(p, k, done, next) ==
    [records |-> [i \in 1..k |-> 10 * p + i], done |-> done, next |-> next]

(* the pages of a query: every page but the last is not done and names the next
   one; the last is done, or has no nextRecordsUrl, or both *)
RestResults ==
    UNION { { [p \in 1..n |-> IF p < n THEN RestPage(p, size[p], FALSE, TRUE)
                                       ELSE RestPage(p, size[p], last[1], last[2])] :
                size \in [1..n -> 0..MaxPageRecords],
                last \in {<<TRUE, FALSE>>, <<FALSE, FALSE>>, <<TRUE, TRUE>>} } :
            n \in 1..MaxRestPages }

(* not result["done"] and (next_url := result.get("nextRecordsUrl")) *)
HasMore(page) == ~page.done /\ page.next

InitIterIdle ==
    /\ it_server = <<>> /\ it_result = 0 /\ it_pos = 0 /\ all_records = <<>>
    /\ itres = NoResult /\ itpc = "idle"

InitIterCall ==
    /\ it_server \in RestResults
    /\ it_result = 0 /\ it_pos = 0 /\ all_records = <<>>
    /\ itres = NoResult /\ itpc = "start"

(* line 817: result = self.query(...) *)
IterQuery ==
    /\ itpc = "start"
    /\ it_result' = 1
    /\ it_pos' = 1
    /\ itpc' = "page"
    /\ UNCHANGED <<it_server, all_records, itres>>

(* line 817: the request raises *)
IterQueryRaises ==
    /\ itpc = "start"
    /\ itres' = RequestError("query")
    /\ itpc' = "raised"
    /\ UNCHANGED <<it_server, it_result, it_pos, all_records>>

(* line 819, line 845: yield from result["records"] gives the next record, which
   list(...) takes *)
IterYield ==
    /\ itpc = "page"
    /\ it_pos <= Len(it_server[it_result].records)
    /\ Len(all_records) < MaxTaken
    /\ all_records' = Append(all_records, it_server[it_result].records[it_pos])
    /\ it_pos' = it_pos + 1
    /\ UNCHANGED <<it_server, it_result, itres, itpc>>

(* lines 821-826: the page is not done and names the next: query_more *)
IterMore ==
    /\ itpc = "page"
    /\ it_pos > Len(it_server[it_result].records)
    /\ HasMore(it_server[it_result])
    /\ it_result' = it_result + 1
    /\ it_pos' = 1
    /\ UNCHANGED <<it_server, all_records, itres, itpc>>

(* lines 822-826: query_more raises *)
IterMoreRaises ==
    /\ itpc = "page"
    /\ it_pos > Len(it_server[it_result].records)
    /\ HasMore(it_server[it_result])
    /\ itres' = RequestError("query_more")
    /\ itpc' = "raised"
    /\ UNCHANGED <<it_server, it_result, it_pos, all_records>>

(* lines 818-821: the condition is false; while True goes round with the same
   result *)
IterAgain ==
    /\ itpc = "page"
    /\ it_pos > Len(it_server[it_result].records)
    /\ ~HasMore(it_server[it_result])
    /\ it_pos' = 1
    /\ UNCHANGED <<it_server, it_result, all_records, itres, itpc>>

(* ------------------------------------------------------------------ *)
(* Properties of query_all_iter                                        *)
(* ------------------------------------------------------------------ *)
(* the records of all pages, in page order *)
AllRecords == Flatten([p \in 1..Len(it_server) |-> it_server[p].records])

(* C19: every record of every page is yielded exactly once, in page order: what
   has been taken from the iterator is always a prefix of the records of the
   pages, and nothing is yielded after the records of the last page. *)
C19_EachRecordOnce ==
    /\ Len(all_records) <= Len(AllRecords)
    /\ \A i \in 1..Len(all_records) : i <= Len(AllRecords) => all_records[i] = AllRecords[i]

(* ------------------------------------------------------------------ *)
(* Salesforce._call_salesforce, CallableSF.call_salesforce             *)
(* ------------------------------------------------------------------ *)
HTTP_401_UNAUTHORIZED == 401

(* the session the object was built with, and the one a new login gives *)
FirstSession == [id |-> "S0", instance |-> "na1.salesforce.com"]

NewSession == [id |-> "S1", instance |-> "na2.salesforce.com"]

NoUsage == [set |-> FALSE]

NoLimitInfo == [set |-> FALSE, entries |-> <<>>]

(* one entry of the Sforce-Limit-Info header, "<key>=<used>/<total>" with
   "(appName=<name>)" after a per-app-api-usage entry; the entries of a header
   are separated by "; " *)
Entry(key, used, total, name) == [key |-> key, used |-> used, total |-> total, name |-> name]

ApiEntries == { Entry("api-usage", 18, 5000, ""), Entry("api-usage", 25, 5000, "") }

AppEntries == { Entry("per-app-api-usage", 17, 250, "sample-connected-app") }

(* the Sforce-Limit-Info header: absent, or the entries it holds *)
LimitInfos ==
    { NoLimitInfo }
    \cup { [set |-> TRUE, entries |-> <<e>>] : e \in ApiEntries \cup AppEntries }
    \cup { [set |-> TRUE, entries |-> <<e, f>>] : e \in ApiEntries, f \in AppEntries }
    \cup { [set |-> TRUE, entries |-> <<f, e>>] : e \in ApiEntries, f \in AppEntries }

(* line 476: the text api-usage=<digits>/<digits> occurs in an api-usage entry
   and in a per-app-api-usage entry ("per-app-" before it) *)
MatchesApiUsage(e) == e.key \in {"api-usage", "per-app-api-usage"}

(* line 479 *)
MatchesPerAppApiUsage(e) == e.key = "per-app-api-usage"

(* re.search: the leftmost match, 0 for None *)
Search(entries, Matches(_)) ==
    IF \E i \in 1..Len(entries) : Matches(entries[i])
    THEN CHOOSE i \in 1..Len(entries) :
            /\ Matches(entries[i])
            /\ \A j \in 1..(i - 1) : ~Matches(entries[j])
    ELSE 0

(* line 480: match.group("used", "used", "used") *)
PerAppGroups(e) == <<ToString(e.used), ToString(e.used), ToString(e.used)>>

(* int() of a string of digits that the header of the model holds *)
ToInt(str) ==
    CHOOSE n \in {e.used : e \in ApiEntries \cup AppEntries}
                 \cup {e.total : e \in ApiEntries \cup AppEntries} : ToString(n) = str

(* lines 458-488 *)
ParseApiUsage(info) ==
    LET a == Search(info.entries, MatchesApiUsage)
        b == Search(info.entries, MatchesPerAppApiUsage)
    IN  [api_usage |->
            IF a # 0
            THEN [set |-> TRUE, v |-> <<info.entries[a].used, info.entries[a].total>>]
            ELSE [set |-> FALSE],
         per_app_api_usage |->
            IF b # 0
            THEN LET groups == PerAppGroups(info.entries[b])
                 IN  [set |-> TRUE, v |-> <<ToInt(groups[1]), ToInt(groups[2])>>,
                      name |-> groups[3]]
            ELSE [set |-> FALSE]]

HttpResponse(status, code, info) == [status |-> status, errorCode |-> code, limit_info |-> info]

(* what the service answers to a request with bearer token t *)
Answers(t) ==
    IF t \notin live
    THEN { HttpResponse(401, "INVALID_SESSION_ID", NoLimitInfo) }
    ELSE { HttpResponse(200, "", info) : info \in LimitInfos }
         \cup { HttpResponse(st, "ERROR", NoLimitInfo) : st \in {300, 400, 403, 404, 500} }
         \cup { HttpResponse(401, "INVALID_AUTH_HEADER", NoLimitInfo) }

(* response.raise_for_status() raises *)
IsErrorStatus(st) == st < 200 \/ st >= 300

(* exceptions.py, _exc_map *)
ExcMap(st) ==
    CASE st = 300 -> "SalesforceMoreThanOneRecord"
      [] st = 400 -> "SalesforceMalformedRequest"
      [] st = 401 -> "SalesforceExpiredSession"
      [] st = 403 -> "SalesforceRefusedRequest"
      [] st = 404 -> "SalesforceResourceNotFound"
      [] OTHER -> "SalesforceGeneralError"

(* exceptions.py, exception_handler(result, name) *)
ExceptionHandler(resp, name) ==
    [kind |-> "raise", type |-> ExcMap(resp.status), status |-> resp.status, name |-> name]

(* base.py lines 86-89: what call_salesforce raises for a response that is not 2xx *)
CallSalesforceRaises(resp) == ExceptionHandler(resp, "")

(* core.py line 521: except HTTPStatusError *)
IsHTTPStatusError(e) == e.type = "HTTPStatusError"

(* core.py lines 523-527 *)
ShouldRefresh(resp) ==
    /\ login_partial
    /\ resp.status = HTTP_401_UNAUTHORIZED
    /\ resp.errorCode = "INVALID_SESSION_ID"

MaxRetries == 3

Calls ==
    { [method |-> m, name |-> n, max_retries |-> MaxRetries] :
        m \in {"GET", "POST", "PATCH"}, n \in {"query", "describe", "restful"} }

NoCall == [method |-> "none"]

InitSessionIdle ==
    /\ session_id = "none" /\ sf_instance = "none" /\ headers = "none"
    /\ login_partial = FALSE /\ api_usage = NoUsage /\ ccall = NoCall /\ retries = 0
    /\ live = {} /\ sent = <<>> /\ refreshed = 0 /\ cres = NoResult /\ frames = <<>>
    /\ cpc = "idle"

(* a Salesforce object built from a login or from a session id, whose session the
   service still accepts or has expired *)
InitSessionCall ==
    /\ session_id = FirstSession.id /\ sf_instance = FirstSession.instance
    /\ headers = FirstSession.id
    /\ login_partial \in BOOLEAN
    /\ api_usage = NoUsage
    /\ ccall \in Calls
    /\ retries = 0
    /\ live \in {{FirstSession.id, NewSession.id}, {NewSession.id}}
    /\ sent = <<>> /\ refreshed = 0 /\ cres = NoResult /\ frames = <<>> /\ cpc = "call"

(* core.py lines 514-520 with base.py 79-91: the request is answered 2xx *)
CallReturns ==
    /\ cpc = "call"
    /\ \E resp \in Answers(headers) :
        /\ ~IsErrorStatus(resp.status)
        /\ api_usage' = IF resp.limit_info.set THEN ParseApiUsage(resp.limit_info)
                        ELSE api_usage
        /\ cres' = Returned(resp)
    /\ sent' = Append(sent, headers)
    /\ cpc' = "returned"
    /\ UNCHANGED <<session_id, sf_instance, headers, login_partial, ccall, retries, live,
                   refreshed, frames>>

(* core.py lines 514-534 with base.py 79-89: the request is answered with an
   error status: call_salesforce raises; the handler of _call_salesforce takes
   an HTTPStatusError only, refreshes the session on an expired one and calls
   itself again, and hands anything else to exception_handler *)
CallFails ==
    /\ cpc = "call"
    /\ \E resp \in Answers(headers) :
        /\ IsErrorStatus(resp.status)
        /\ LET e == CallSalesforceRaises(resp)
               refresh == IsHTTPStatusError(e) /\ ShouldRefresh(resp)
               again == refresh /\ retries # ccall.max_retries
           IN  /\ session_id' = IF refresh THEN NewSession.id ELSE session_id
               /\ sf_instance' = IF refresh THEN NewSession.instance ELSE sf_instance
               /\ refreshed' = IF refresh THEN refreshed + 1 ELSE refreshed
               /\ retries' = IF again THEN retries + 1 ELSE retries
               /\ cres' = IF again THEN cres
                          ELSE IF IsHTTPStatusError(e) THEN ExceptionHandler(resp, ccall.name)
                          ELSE e
               /\ cpc' = IF again THEN "call" ELSE "raised"
    /\ sent' = Append(sent, headers)
    /\ UNCHANGED <<headers, login_partial, api_usage, ccall, live, frames>>

(* ------------------------------------------------------------------ *)
(* Properties of _call_salesforce                                      *)
(* ------------------------------------------------------------------ *)
(* C20: with a login callable configured, a call whose first request is refused
   for an expired session (401, INVALID_SESSION_ID) refreshes the session, sends
   the request again and ends with the successful response. *)
C20_RefreshOnExpiry ==
    (/\ cpc \in {"returned", "raised"}
     /\ login_partial
     /\ FirstSession.id \notin live)
    => /\ refreshed >= 1
       /\ session_id = NewSession.id
       /\ sf_instance = NewSession.instance
       /\ Len(sent) >= 2
       /\ cpc = "returned"
       /\ cres.value.status = 200

(* the entry of a header with the given key, 0 when the header has none *)
EntryOf(info, key) == Search(info.entries, LAMBDA e : e.key = key)

(* C21: after a response that carries a Sforce-Limit-Info header, api_usage is
   (used, total) of the api-usage entry and per_app_api_usage is (used, total,
   appName) of the per-app-api-usage entry, and each is None when the header has
   no such entry. *)
C21_ParseApiUsage ==
    (cpc = "returned" /\ cres.value.limit_info.set)
    => LET info == cres.value.limit_info
           a == EntryOf(info, "api-usage")
           b == EntryOf(info, "per-app-api-usage")
       IN  /\ api_usage.api_usage =
                IF a # 0
                THEN [set |-> TRUE, v |-> <<info.entries[a].used, info.entries[a].total>>]
                ELSE [set |-> FALSE]
           /\ api_usage.per_app_api_usage =
                IF b # 0
                THEN [set |-> TRUE, v |-> <<info.entries[b].used, info.entries[b].total>>,
                      name |-> info.entries[b].name]
                ELSE [set |-> FALSE]

(* ------------------------------------------------------------------ *)
(* SFType._call_salesforce (src/simple_salesforce/api.py)              *)
(* ------------------------------------------------------------------ *)
MaxDepth == 6

(* line 336 *)
DefaultMaxRetries == 3

MaxRetriesArgs == {0, 1, 2, DefaultMaxRetries}

(* the headers keyword argument of a call: none, or additional headers *)
HeaderArgs == {"none", "Sforce-Auto-Assign: FALSE"}

(* lines 331-338: the arguments of one call, and its local retries *)
Frame(r, mx, hd) == [retries |-> r, max_retries |-> mx, headers |-> hd]

TypeCalls ==
    { [method |-> m, name |-> "Contact", max_retries |-> mx, headers |-> hd] :
        m \in {"GET", "POST"}, mx \in MaxRetriesArgs, hd \in HeaderArgs }

(* the call that is running: the innermost one *)
Top == frames[Len(frames)]

(* lines 340-347: the request of the running call *)
TypeRequest == [token |-> session_id, headers |-> Top.headers]

(* lines 349-355 *)
TypeShouldRefresh(resp) ==
    /\ login_partial
    /\ resp.status = 401
    /\ resp.errorCode = "INVALID_SESSION_ID"

(* line 361: self._call_salesforce(method, url, **kwargs): retries and
   max_retries take their defaults, and "headers" was popped from kwargs at
   line 345 *)
RetryFrame(f) == Frame(0, DefaultMaxRetries, "none")

(* an SFType whose Salesforce object has a login callable or not; the service
   accepts both sessions, the new one only, or none *)
InitTypeCall ==
    /\ session_id = FirstSession.id /\ sf_instance = FirstSession.instance
    /\ headers = FirstSession.id
    /\ login_partial \in BOOLEAN
    /\ api_usage = NoUsage
    /\ ccall \in TypeCalls
    /\ retries = 0
    /\ live \in {{FirstSession.id, NewSession.id}, {NewSession.id}, {}}
    /\ sent = <<>> /\ refreshed = 0 /\ cres = NoResult
    /\ frames = <<Frame(0, ccall.max_retries, ccall.headers)>>
    /\ cpc = "call"

(* lines 340-347, 363-370: the response is below 300 *)
TypeReturns ==
    /\ cpc = "call"
    /\ \E resp \in Answers(session_id) :
        /\ ~TypeShouldRefresh(resp)
        /\ resp.status < 300
        /\ api_usage' = IF resp.limit_info.set THEN ParseApiUsage(resp.limit_info)
                        ELSE api_usage
        /\ cres' = Returned(resp)
    /\ sent' = Append(sent, TypeRequest)
    /\ cpc' = "returned"
    /\ UNCHANGED <<session_id, sf_instance, headers, login_partial, ccall, retries, live,
                   refreshed, frames>>

(* lines 340-347, 363-364: an error response that is not an expired session
   of an object that can log in again *)
TypeRaises ==
    /\ cpc = "call"
    /\ \E resp \in Answers(session_id) :
        /\ ~TypeShouldRefresh(resp)
        /\ resp.status >= 300
        /\ cres' = ExceptionHandler(resp, ccall.name)
    /\ sent' = Append(sent, TypeRequest)
    /\ cpc' = "raised"
    /\ UNCHANGED <<session_id, sf_instance, headers, login_partial, api_usage, ccall,
                   retries, live, refreshed, frames>>

(* lines 340-359: expired session, the session is refreshed and retries, now
   retries + 1, is above max_retries *)
TypeRefreshRaises ==
    /\ cpc = "call"
    /\ \E resp \in Answers(session_id) :
        /\ TypeShouldRefresh(resp)
        /\ Top.retries + 1 > Top.max_retries
        /\ cres' = ExceptionHandler(resp, ccall.name)
    /\ sent' = Append(sent, TypeRequest)
    /\ session_id' = NewSession.id
    /\ sf_instance' = NewSession.instance
    /\ refreshed' = refreshed + 1
    /\ frames' = [frames EXCEPT ![Len(frames)].retries = @ + 1]
    /\ cpc' = "raised"
    /\ UNCHANGED <<headers, login_partial, api_usage, ccall, retries, live>>

(* lines 340-361: expired session, the session is refreshed and the method
   calls itself *)
TypeRefreshRecurse ==
    /\ cpc = "call"
    /\ Len(frames) < MaxDepth
    /\ \E resp \in Answers(session_id) :
        /\ TypeShouldRefresh(resp)
        /\ ~(Top.retries + 1 > Top.max_retries)
    /\ sent' = Append(sent, TypeRequest)
    /\ session_id' = NewSession.id
    /\ sf_instance' = NewSession.instance
    /\ refreshed' = refreshed + 1
    /\ frames' = Append([frames EXCEPT ![Len(frames)].retries = @ + 1], RetryFrame(Top))
    /\ UNCHANGED <<headers, login_partial, api_usage, ccall, retries, live, cres, cpc>>

(* ------------------------------------------------------------------ *)
(* Properties of SFType._call_salesforce                               *)
(* ------------------------------------------------------------------ *)
(* C22: one call sends at most max_retries + 1 requests, refreshes the session
   at most max_retries + 1 times, and a call that has sent max_retries + 1
   requests, each answered 401 INVALID_SESSION_ID, has raised. *)
C22_BoundedRetries ==
    /\ Len(sent) <= ccall.max_retries + 1
    /\ refreshed <= ccall.max_retries + 1
    /\ (login_partial /\ live = {} /\ Len(sent) = ccall.max_retries + 1) => cpc = "raised"

(* ------------------------------------------------------------------ *)
(* Specifications                                                      *)
(* ------------------------------------------------------------------ *)
InitWait == InitWaitCall /\ InitSplitIdle /\ InitUploadIdle /\ InitFileIdle /\ InitJobIdle /\ InitQueryIdle /\ InitIterIdle /\ InitSessionIdle

NextWait ==
    \/ WaitBegin /\ UNCHANGED <<splitVars, uploadVars, fileVars, jobVars, queryVars, iterVars, sessionVars>>
    \/ PollComplete /\ UNCHANGED <<splitVars, uploadVars, fileVars, jobVars, queryVars, iterVars, sessionVars>>
    \/ PollFailed /\ UNCHANGED <<splitVars, uploadVars, fileVars, jobVars, queryVars, iterVars, sessionVars>>
    \/ PollPending /\ UNCHANGED <<splitVars, uploadVars, fileVars, jobVars, queryVars, iterVars, sessionVars>>
    \/ PollError /\ UNCHANGED <<splitVars, uploadVars, fileVars, jobVars, queryVars, iterVars, sessionVars>>
    \/ WaitTimeout /\ UNCHANGED <<splitVars, uploadVars, fileVars, jobVars, queryVars, iterVars, sessionVars>>

(* one call of wait_for_job *)
SpecWait == InitWait /\ [][NextWait]_vars

(* the calling thread keeps running until the call has ended *)
FairSpecWait ==
    InitWait /\ [][NextWait]_vars /\ WF_vars(NextWait)

InitSplit == InitSplitCall /\ InitWaitIdle /\ InitUploadIdle /\ InitFileIdle /\ InitJobIdle /\ InitQueryIdle /\ InitIterIdle /\ InitSessionIdle

NextSplit ==
    \/ SplitOpen /\ UNCHANGED <<waitVars, uploadVars, fileVars, jobVars, queryVars, iterVars, sessionVars>>
    \/ SplitValueError /\ UNCHANGED <<waitVars, uploadVars, fileVars, jobVars, queryVars, iterVars, sessionVars>>
    \/ ChunkFlush /\ UNCHANGED <<waitVars, uploadVars, fileVars, jobVars, queryVars, iterVars, sessionVars>>
    \/ ChunkAppend /\ UNCHANGED <<waitVars, uploadVars, fileVars, jobVars, queryVars, iterVars, sessionVars>>
    \/ ChunkEnd /\ UNCHANGED <<waitVars, uploadVars, fileVars, jobVars, queryVars, iterVars, sessionVars>>

(* one call of _split_csv, consumed to its end *)
SpecSplit == InitSplit /\ [][NextSplit]_vars

InitUpload == InitUploadCall /\ InitWaitIdle /\ InitSplitIdle /\ InitFileIdle /\ InitJobIdle /\ InitQueryIdle /\ InitIterIdle /\ InitSessionIdle

NextUpload ==
    \/ UploadCreate /\ UNCHANGED <<waitLocals, splitVars, fileVars, jobVars, queryVars, iterVars, sessionVars>>
    \/ UploadCreateRaises /\ UNCHANGED <<waitLocals, splitVars, fileVars, jobVars, queryVars, iterVars, sessionVars>>
    \/ UploadNotOpen /\ UNCHANGED <<waitLocals, splitVars, fileVars, jobVars, queryVars, iterVars, sessionVars>>
    \/ UploadJobData /\ UNCHANGED <<waitLocals, splitVars, fileVars, jobVars, queryVars, iterVars, sessionVars>>
    \/ UploadJobDataRaises /\ UNCHANGED <<waitLocals, splitVars, fileVars, jobVars, queryVars, iterVars, sessionVars>>
    \/ UploadCloseJob /\ UNCHANGED <<splitVars, fileVars, jobVars, queryVars, iterVars, sessionVars>>
    \/ UploadCloseJobRaises /\ UNCHANGED <<waitLocals, splitVars, fileVars, jobVars, queryVars, iterVars, sessionVars>>
    \/ WaitBegin /\ UNCHANGED <<splitVars, uploadVars, fileVars, jobVars, queryVars, iterVars, sessionVars>>
    \/ PollComplete /\ UNCHANGED <<splitVars, uploadVars, fileVars, jobVars, queryVars, iterVars, sessionVars>>
    \/ PollFailed /\ UNCHANGED <<splitVars, uploadVars, fileVars, jobVars, queryVars, iterVars, sessionVars>>
    \/ PollPending /\ UNCHANGED <<splitVars, uploadVars, fileVars, jobVars, queryVars, iterVars, sessionVars>>
    \/ PollError /\ UNCHANGED <<splitVars, uploadVars, fileVars, jobVars, queryVars, iterVars, sessionVars>>
    \/ WaitTimeout /\ UNCHANGED <<splitVars, uploadVars, fileVars, jobVars, queryVars, iterVars, sessionVars>>
    \/ UploadWaitRaised /\ UNCHANGED <<waitLocals, splitVars, fileVars, jobVars, queryVars, iterVars, sessionVars>>
    \/ UploadFinalGet /\ UNCHANGED <<waitLocals, splitVars, fileVars, jobVars, queryVars, iterVars, sessionVars>>
    \/ UploadFinalGetRaises /\ UNCHANGED <<waitLocals, splitVars, fileVars, jobVars, queryVars, iterVars, sessionVars>>
    \/ HandlerNoAbort /\ UNCHANGED <<waitLocals, splitVars, fileVars, jobVars, queryVars, iterVars, sessionVars>>
    \/ HandlerAbort /\ UNCHANGED <<waitLocals, splitVars, fileVars, jobVars, queryVars, iterVars, sessionVars>>
    \/ HandlerGetRaises /\ UNCHANGED <<waitLocals, splitVars, fileVars, jobVars, queryVars, iterVars, sessionVars>>
    \/ HandlerAbortRaises /\ UNCHANGED <<waitLocals, splitVars, fileVars, jobVars, queryVars, iterVars, sessionVars>>

(* one call of _upload_data *)
SpecUpload == InitUpload /\ [][NextUpload]_vars

InitFile == InitFileCall /\ InitWaitIdle /\ InitUploadIdle /\ InitJobIdle /\ InitQueryIdle /\ InitIterIdle /\ InitSessionIdle

NextFile ==
    \/ FileSetupError /\ UNCHANGED <<waitVars, uploadVars, jobVars, queryVars, iterVars, sessionVars>>
    \/ FileBegin /\ UNCHANGED <<waitVars, uploadVars, jobVars, queryVars, iterVars, sessionVars>>
    \/ FileChunkedError /\ UNCHANGED <<waitVars, splitVars, uploadVars, jobVars, queryVars, iterVars, sessionVars>>
    \/ FileSplitError /\ UNCHANGED <<waitVars, splitVars, uploadVars, jobVars, queryVars, iterVars, sessionVars>>
    \/ GenDemanded /\ SplitOpen /\ UNCHANGED <<waitVars, uploadVars, fileVars, jobVars, queryVars, iterVars, sessionVars>>
    \/ GenDemanded /\ SplitValueError /\ UNCHANGED <<waitVars, uploadVars, fileVars, jobVars, queryVars, iterVars, sessionVars>>
    \/ GenDemanded /\ ChunkFlush /\ UNCHANGED <<waitVars, uploadVars, fileVars, jobVars, queryVars, iterVars, sessionVars>>
    \/ GenDemanded /\ ChunkAppend /\ UNCHANGED <<waitVars, uploadVars, fileVars, jobVars, queryVars, iterVars, sessionVars>>
    \/ GenDemanded /\ ChunkEnd /\ UNCHANGED <<waitVars, uploadVars, fileVars, jobVars, queryVars, iterVars, sessionVars>>
    \/ FileCallUpload /\ UNCHANGED <<waitVars, splitVars, uploadVars, jobVars, queryVars, iterVars, sessionVars>>
    \/ FileSubmitBatch /\ UNCHANGED <<waitVars, splitVars, uploadVars, jobVars, queryVars, iterVars, sessionVars>>
    \/ \E i \in TaskIds : TaskStart(i) /\ UNCHANGED <<waitLocals, splitVars, uploadVars, jobVars, queryVars, iterVars, sessionVars>>
    \/ \E i \in TaskIds : TaskSucceed(i) /\ UNCHANGED <<waitVars, splitVars, uploadVars, jobVars, queryVars, iterVars, sessionVars>>
    \/ \E i \in TaskIds : TaskFail(i) /\ UNCHANGED <<waitVars, splitVars, uploadVars, jobVars, queryVars, iterVars, sessionVars>>
    \/ FileCollect /\ UNCHANGED <<waitVars, splitVars, uploadVars, jobVars, queryVars, iterVars, sessionVars>>
    \/ FileNextPull /\ UNCHANGED <<waitVars, splitVars, uploadVars, jobVars, queryVars, iterVars, sessionVars>>
    \/ FileCatch /\ UNCHANGED <<waitVars, splitVars, uploadVars, jobVars, queryVars, iterVars, sessionVars>>
    \/ FileRaise /\ UNCHANGED <<waitVars, splitVars, uploadVars, jobVars, queryVars, iterVars, sessionVars>>
    \/ FileReturn /\ UNCHANGED <<waitVars, splitVars, uploadVars, jobVars, queryVars, iterVars, sessionVars>>

(* one call of _upload_file *)
SpecFile == InitFile /\ [][NextFile]_vars

InitJob == InitJobCall /\ InitWaitIdle /\ InitSplitIdle /\ InitUploadIdle /\ InitFileIdle /\ InitQueryIdle /\ InitIterIdle /\ InitSessionIdle

NextJob ==
    \/ JobDispatch /\ UNCHANGED <<waitVars, splitVars, uploadVars, fileVars, queryVars, iterVars, sessionVars>>
    \/ CreateJobQueryMissing /\ UNCHANGED <<waitVars, splitVars, uploadVars, fileVars, queryVars, iterVars, sessionVars>>
    \/ CreateJobPost /\ UNCHANGED <<waitVars, splitVars, uploadVars, fileVars, queryVars, iterVars, sessionVars>>
    \/ CreateJobPostRaises /\ UNCHANGED <<waitVars, splitVars, uploadVars, fileVars, queryVars, iterVars, sessionVars>>

(* one call of a public operation, up to its create_job *)
SpecJob == InitJob /\ [][NextJob]_vars

InitQuery ==
    InitQueryCall /\ InitWaitIdle /\ InitSplitIdle /\ InitUploadIdle /\ InitFileIdle
        /\ InitJobIdle /\ InitIterIdle /\ InitSessionIdle

NextQuery ==
    \/ QueryStart /\ UNCHANGED <<waitVars, splitVars, uploadVars, fileVars, iterVars, sessionVars>>
    \/ CreateJobQueryMissing /\ UNCHANGED <<waitVars, splitVars, uploadVars, fileVars, queryVars, iterVars, sessionVars>>
    \/ CreateJobPost /\ UNCHANGED <<waitVars, splitVars, uploadVars, fileVars, queryVars, iterVars, sessionVars>>
    \/ CreateJobPostRaises /\ UNCHANGED <<waitVars, splitVars, uploadVars, fileVars, queryVars, iterVars, sessionVars>>
    \/ QueryCreateRaised /\ UNCHANGED <<waitVars, splitVars, uploadVars, fileVars, jobVars, iterVars, sessionVars>>
    \/ QueryWait /\ UNCHANGED <<splitVars, uploadVars, fileVars, jobVars, iterVars, sessionVars>>
    \/ WaitBegin /\ UNCHANGED <<splitVars, uploadVars, fileVars, jobVars, queryVars, iterVars, sessionVars>>
    \/ PollComplete /\ UNCHANGED <<splitVars, uploadVars, fileVars, jobVars, queryVars, iterVars, sessionVars>>
    \/ PollFailed /\ UNCHANGED <<splitVars, uploadVars, fileVars, jobVars, queryVars, iterVars, sessionVars>>
    \/ PollPending /\ UNCHANGED <<splitVars, uploadVars, fileVars, jobVars, queryVars, iterVars, sessionVars>>
    \/ PollError /\ UNCHANGED <<splitVars, uploadVars, fileVars, jobVars, queryVars, iterVars, sessionVars>>
    \/ WaitTimeout /\ UNCHANGED <<splitVars, uploadVars, fileVars, jobVars, queryVars, iterVars, sessionVars>>
    \/ QueryWaitRaised /\ UNCHANGED <<waitVars, splitVars, uploadVars, fileVars, jobVars, iterVars, sessionVars>>
    \/ QueryWaitReturned /\ UNCHANGED <<waitVars, splitVars, uploadVars, fileVars, jobVars, iterVars, sessionVars>>
    \/ QueryPage /\ UNCHANGED <<waitVars, splitVars, uploadVars, fileVars, jobVars, iterVars, sessionVars>>
    \/ QueryPageRaises /\ UNCHANGED <<waitVars, splitVars, uploadVars, fileVars, jobVars, iterVars, sessionVars>>
    \/ QueryStop /\ UNCHANGED <<waitVars, splitVars, uploadVars, fileVars, jobVars, iterVars, sessionVars>>

(* one run of the generator of query or query_all *)
SpecQuery == InitQuery /\ [][NextQuery]_vars

InitIter ==
    InitIterCall /\ InitWaitIdle /\ InitSplitIdle /\ InitUploadIdle /\ InitFileIdle
        /\ InitJobIdle /\ InitQueryIdle /\ InitSessionIdle

NextIter ==
    \/ IterQuery /\ UNCHANGED <<waitVars, splitVars, uploadVars, fileVars, jobVars, queryVars, sessionVars>>
    \/ IterQueryRaises /\ UNCHANGED <<waitVars, splitVars, uploadVars, fileVars, jobVars, queryVars, sessionVars>>
    \/ IterYield /\ UNCHANGED <<waitVars, splitVars, uploadVars, fileVars, jobVars, queryVars, sessionVars>>
    \/ IterMore /\ UNCHANGED <<waitVars, splitVars, uploadVars, fileVars, jobVars, queryVars, sessionVars>>
    \/ IterMoreRaises /\ UNCHANGED <<waitVars, splitVars, uploadVars, fileVars, jobVars, queryVars, sessionVars>>
    \/ IterAgain /\ UNCHANGED <<waitVars, splitVars, uploadVars, fileVars, jobVars, queryVars, sessionVars>>

(* one run of query_all over query_all_iter *)
SpecIter == InitIter /\ [][NextIter]_vars

InitSession ==
    InitSessionCall /\ InitWaitIdle /\ InitSplitIdle /\ InitUploadIdle /\ InitFileIdle
        /\ InitJobIdle /\ InitQueryIdle /\ InitIterIdle

NextSession ==
    \/ CallReturns /\ UNCHANGED <<waitVars, splitVars, uploadVars, fileVars, jobVars, queryVars, iterVars>>
    \/ CallFails /\ UNCHANGED <<waitVars, splitVars, uploadVars, fileVars, jobVars, queryVars, iterVars>>

(* one call of Salesforce._call_salesforce *)
SpecSession == InitSession /\ [][NextSession]_vars

InitType ==
    InitTypeCall /\ InitWaitIdle /\ InitSplitIdle /\ InitUploadIdle /\ InitFileIdle
        /\ InitJobIdle /\ InitQueryIdle /\ InitIterIdle

NextType ==
    \/ TypeReturns /\ UNCHANGED <<waitVars, splitVars, uploadVars, fileVars, jobVars, queryVars, iterVars>>
    \/ TypeRaises /\ UNCHANGED <<waitVars, splitVars, uploadVars, fileVars, jobVars, queryVars, iterVars>>
    \/ TypeRefreshRaises /\ UNCHANGED <<waitVars, splitVars, uploadVars, fileVars, jobVars, queryVars, iterVars>>
    \/ TypeRefreshRecurse /\ UNCHANGED <<waitVars, splitVars, uploadVars, fileVars, jobVars, queryVars, iterVars>>

(* one call of SFType._call_salesforce *)
SpecType == InitType /\ [][NextType]_vars

Spec == SpecWait
====
